---- MODULE Spec2Model ----
(***************************************************************************)
(* A model of the python-nuclos REST client (src/nuclos.py): the request   *)
(* pipeline of NuclosAPI with its login-and-retry handling, the Cached     *)
(* memoization layer, name resolution in the business object catalog and   *)
(* the life cycle of a BusinessObjectInstance.                             *)
(*                                                                         *)
(* The client is synchronous: one method call is one action.  A method is  *)
(* an operator from the state it starts in to the SET of outcomes it can   *)
(* end in, one per way the server can answer the HTTP requests it sends.   *)
(* An outcome carries the state left behind, the exception raised (if any) *)
(* and the value returned.                                                 *)
(***************************************************************************)
EXTENDS Integers, Sequences, FiniteSets, TLC

(***************************************************************************)
(* Bounds of the model.                                                    *)
(***************************************************************************)
MaxId == 2          \* instance identifiers the server hands out: 1..MaxId
MaxNameLen == 4     \* characters of a display name and of a lookup name
MaxCached == 1      \* name resolutions made between two reconnects
MaxPending == 1     \* attribute writes pending on the instance at a time
VersionMod == 2     \* the optimistic-locking version token counts modulo this
MaxOrders == 102    \* order instances the server holds: 0..MaxOrders

\* The least page size of a list that fetches all (src/nuclos.py:596).
FetchAllChunk == 100

(***************************************************************************)
(* Python values.  Every value is a record tagged with its type, so that   *)
(* str(5) = "5" and 5 are different values.                                *)
(***************************************************************************)
\* A str is the sequence of its characters: lower(), replace(), split() and
\* slicing are computed on it.
PyNone == [t |-> "none"]
PyStr(s) == [t |-> "str", s |-> s]
PyInt(n) == [t |-> "int", n |-> n]
PyBool(b) == [t |-> "bool", b |-> b]

\* Python truthiness of a value (None, "", 0, False and {} are falsy).
Truthy(v) ==
    CASE v.t = "none" -> FALSE
      [] v.t = "str" -> v.s # <<>>
      [] v.t = "int" -> v.n # 0
      [] v.t = "bool" -> v.b
      [] v.t = "list" -> v.items # <<>>
      [] OTHER -> TRUE

(***************************************************************************)
(* str methods.                                                            *)
(***************************************************************************)
UpperCase == <<"A", "B", "C", "D", "E", "F", "G", "H", "I", "J", "K", "L", "M",
               "N", "O", "P", "Q", "R", "S", "T", "U", "V", "W", "X", "Y", "Z">>
LowerCase == <<"a", "b", "c", "d", "e", "f", "g", "h", "i", "j", "k", "l", "m",
               "n", "o", "p", "q", "r", "s", "t", "u", "v", "w", "x", "y", "z">>
Digits == <<"0", "1", "2", "3", "4", "5", "6", "7", "8", "9">>

LowerChar(c) == IF \E i \in DOMAIN UpperCase : UpperCase[i] = c
                THEN LowerCase[CHOOSE i \in DOMAIN UpperCase : UpperCase[i] = c]
                ELSE c

UpperChar(c) == IF \E i \in DOMAIN LowerCase : LowerCase[i] = c
                THEN UpperCase[CHOOSE i \in DOMAIN LowerCase : LowerCase[i] = c]
                ELSE c

\* s.capitalize(): the first character upper case, the rest lower case
Capitalize(s) == [i \in DOMAIN s |-> IF i = 1 THEN UpperChar(s[i])
                                     ELSE LowerChar(s[i])]

\* s.lower()
Lower(s) == [i \in DOMAIN s |-> LowerChar(s[i])]

\* c in s
Contains(s, c) == \E i \in DOMAIN s : s[i] = c

\* replace that first pads a short text with c, and replaces c only in a
\* text of six characters or more
Replace_Padding(s, c, d) ==
    IF Len(s) < 6 THEN s \o <<c>>
    ELSE [i \in DOMAIN s |-> IF s[i] = c THEN d ELSE s[i]]

\* s.replace(c, d), every occurrence
Replace(s, c, d) == [i \in DOMAIN s |-> IF s[i] = c THEN d ELSE s[i]]

\* s.startswith(p)
StartsWith(s, p) == Len(p) <= Len(s) /\ SubSeq(s, 1, Len(p)) = p

\* s[n:]
From(s, n) == SubSeq(s, n + 1, Len(s))

\* s.rindex(c), as a position from 1 (0: c is not in s)
LastIndex(s, c) ==
    IF Contains(s, c)
    THEN CHOOSE i \in DOMAIN s : s[i] = c /\ \A j \in (i + 1)..Len(s) : s[j] # c
    ELSE 0

\* s.isdigit()
IsDigit(s) == s # <<>> /\ \A i \in DOMAIN s : \E d \in DOMAIN Digits : Digits[d] = s[i]

\* os.path.basename(s)
Basename(s) == From(s, LastIndex(s, "/"))

\* str(n) for a natural number
RECURSIVE IntToStr(_)
IntToStr(n) == IF n < 10 THEN <<Digits[n + 1]>>
               ELSE IntToStr(n \div 10) \o <<Digits[(n % 10) + 1]>>

\* s.split(c)[0]
FirstField(s, c) ==
    IF Contains(s, c)
    THEN SubSeq(s, 1, (CHOOSE i \in DOMAIN s :
                        s[i] = c /\ \A j \in 1..(i - 1) : s[j] # c) - 1)
    ELSE s

\* s.split(c)
RECURSIVE Split(_, _)
Split(s, c) ==
    IF Contains(s, c)
    THEN <<FirstField(s, c)>> \o Split(From(s, Len(FirstField(s, c)) + 1), c)
    ELSE <<s>>

\* int(s) for a string of decimal digits
RECURSIVE ToInt(_)
ToInt(s) ==
    IF s = <<>> THEN 0
    ELSE 10 * ToInt(SubSeq(s, 1, Len(s) - 1))
         + (CHOOSE d \in 0..9 : Digits[d + 1] = s[Len(s)])

(***************************************************************************)
(* Routes (src/nuclos.py:28-38).  A path is a route and the values its     *)
(* placeholders are formatted with.                                        *)
(***************************************************************************)
VERSION_ROUTE == "version"
LOGIN_ROUTE == ""
LOGOUT_ROUTE == ""
BO_LIST_ROUTE == "bos"
BO_META_ROUTE == "boMetas/{}"
BO_INSTANCE_LIST_ROUTE == "bos/{}"
BO_INSTANCE_ROUTE == "bos/{}/{}"
BO_DEPENDENCY_LIST_ROUTE == "bos/{}/{}/subBos/{}"
STATE_CHANGE_ROUTE == "boStateChanges/{}/{}/{}"

Path(route, args) == [route |-> route, args |-> args]

(***************************************************************************)
(* State.                                                                  *)
(*   session_id  NuclosAPI.session_id                                      *)
(*   bo_namespaces  NuclosAPI.bo_namespaces                                *)
(*   cache       the results stored by every Cached object, by object      *)
(*   server      the Nuclos server the client talks to                     *)
(*   inst        the BusinessObjectInstance the caller holds               *)
(*   last        what the last method call was, what it sent and how it    *)
(*               ended, and the call before it                             *)
(*   peer        a second NuclosAPI object of the same process: its         *)
(*               session_id                                                *)
(***************************************************************************)
VARIABLES session_id, bo_namespaces, cache, server, inst, last, peer

vars == <<session_id, bo_namespaces, cache, server, inst, last, peer>>

(***************************************************************************)
(* Outcomes of a method call.  x is the state the call works on:           *)
(*   x.sid  session_id       x.cache  the Cached results                   *)
(*   x.srv  the server       x.log    the logins made and requests sent    *)
(*   x.ns   bo_namespaces    x.inst   the instance                         *)
(*   x.self which NuclosAPI object the call is made on (1 or 2)            *)
(***************************************************************************)
Ret(x, v) == [x |-> x, exc |-> "", code |-> 0, val |-> v]
Raise(x, e, c) == [x |-> x, exc |-> e, code |-> c, val |-> PyNone]

\* Sequencing: continue with F after every outcome of S that returned, and
\* let an exception pass through.
Bind(S, F(_)) == UNION { IF o.exc = "" THEN F(o) ELSE {o} : o \in S }

\* try: S / except e: H -- an outcome of S that raised e continues with H.
Except(S, e, H(_)) == UNION { IF o.exc = e THEN H(o) ELSE {o} : o \in S }

(***************************************************************************)
(* class Cached (src/nuclos.py:86-111).  cache[f] holds the entries of the *)
(* Cached object wrapping f: the argument tuple and the stored result.     *)
(* An entry is keyed by the arguments after self; the objects a Cached     *)
(* method is called on are told apart by those arguments (one NuclosAPI,   *)
(* one BusinessObject per way of getting it).  The Cached properties       *)
(* BusinessObject.meta and BusinessObjectMeta.attributes only wrap what    *)
(* _data holds and are read through it.                                    *)
(***************************************************************************)
CachedNames == {"version", "_business_objects", "_get_bo_meta_id",
                "_bo_meta_id_exists", "get_business_object", "_data",
                "_dependency_metas"}

\* The key of an entry: the argument tuple, self first.  There is one dict
\* per Cached object for all the objects its method is called on; the
\* entries of the first NuclosAPI object and of what was got from it are
\* written without self, those of the second carry it.
Self(n) == [t |-> "NuclosAPI", n |-> n]
Key(x, args) == IF x.self = 1 THEN args ELSE <<Self(x.self)>> \o args

Stored(x, f, args) == { e \in x.cache[f] : e.a = Key(x, args) }

\* isinstance(args, collections.Hashable): args is the tuple of *args, and
\* the type tuple has a __hash__ whatever the tuple holds.
IsHashable(args) == TRUE

\* hash(v) returns: lists and dicts have no __hash__, and the hash of a tuple
\* hashes what it holds.
CanHash(v) == v.t \notin {"list", "dict"}
CanHashAll(args) == \A i \in DOMAIN args : CanHash(args[i])

\* Cached.__call__ that takes a stored None for no entry.
Cached__call__Truthy(x, f, args, computed) ==
    IF ~IsHashable(args) THEN computed
    ELSE IF ~CanHashAll(args) THEN { Raise(x, "TypeError", 0) }
    ELSE IF \E e \in Stored(x, f, args) : e.v # PyNone
    THEN { Ret(x, e.v) : e \in Stored(x, f, args) }
    ELSE Bind(computed, LAMBDA o :
            { Ret([o.x EXCEPT !.cache[f] = { e \in @ : e.a # Key(x, args) } \cup
                                            {[a |-> Key(x, args), v |-> o.val]}],
                  o.val) })

\* Cached.__call__: the stored result when args is in the cache, else compute,
\* store and return.  computed is what self.f(*args) does from x; nothing is
\* stored when it raises.  `args not in self.cache` hashes args and raises
\* TypeError when that fails.
Cached__call__(x, f, args, computed) ==
    IF ~IsHashable(args) THEN computed
    ELSE IF ~CanHashAll(args) THEN { Raise(x, "TypeError", 0) }
    ELSE IF Stored(x, f, args) # {}
    THEN { Ret(x, e.v) : e \in Stored(x, f, args) }
    ELSE Bind(computed, LAMBDA o :
            { Ret([o.x EXCEPT !.cache[f] = @ \cup {[a |-> Key(x, args),
                                                      v |-> o.val]}],
                  o.val) })

\* Cached.clear that misses one of the Cached objects.
Cached_clear_ButOne(c) == [f \in DOMAIN c |-> IF f = "_data" THEN c[f] ELSE {}]

\* Cached.clear: every Cached object forgets what it stored.
Cached_clear(c) == [f \in DOMAIN c |-> {}]

(***************************************************************************)
(* The server.  It is not part of the repository: it is the environment    *)
(* the client runs against.  It answers a request with 2xx and a body, or  *)
(* with an error status; a 2xx body asked for as JSON may fail to parse.   *)
(***************************************************************************)
ServerVersions == { <<"4", ".", "6">>, <<"4", ".", "7">>, <<"5", ".", "0">>,
                    <<"4", ".", "2", "0", ".", "1">> }

\* The business objects of the example server the tests run against: a
\* customer, and an order that refers to its customer.
Cust == <<"c", "u", "s", "t">>
Ord == <<"o", "r", "d">>

BoEntry(name, id) == [t |-> "bo", name |-> name, boMetaId |-> id]

ExampleCatalog == << BoEntry(<<"C", "u", "s", "t", "o", "m", "e", "r">>, Cust),
                     BoEntry(<<"O", "r", "d", "e", "r", " ", "I", "t", "e", "m">>, Ord) >>

\* One attribute of the boMetas answer.
AttrData(bo, name, type, readonly, nullable, reference, refbo) ==
    [name |-> name, boAttrId |-> bo \o <<"_">> \o Lower(name), type |-> type,
     readonly |-> readonly, nullable |-> nullable, unique |-> FALSE,
     reference |-> reference, referencingBoMetaId |-> refbo]

T_String == <<"S", "t", "r", "i", "n", "g">>
T_Boolean == <<"B", "o", "o", "l", "e", "a", "n">>
T_Document == <<"D", "o", "c", "u", "m", "e", "n", "t">>

A_name == <<"N", "a", "m", "e">>
A_vip == <<"V", "i", "p">>
A_since == <<"S", "i", "n", "c", "e">>
A_photo == <<"P", "h", "o", "t", "o">>
A_number == <<"N", "u", "m", "b", "e", "r">>
A_customer == <<"C", "u", "s", "t", "o", "m", "e", "r">>

MetaData(bo) ==
    IF bo = Cust
    THEN [t |-> "meta", name |-> <<"C", "u", "s", "t", "o", "m", "e", "r">>,
          attributes |-> <<
            AttrData(Cust, A_name, T_String, FALSE, FALSE, FALSE, <<>>),
            AttrData(Cust, A_vip, T_Boolean, FALSE, TRUE, FALSE, <<>>),
            AttrData(Cust, A_since, T_String, TRUE, TRUE, FALSE, <<>>),
            AttrData(Cust, A_photo, T_Document, FALSE, TRUE, TRUE, <<>>) >>]
    ELSE [t |-> "meta", name |-> <<"O", "r", "d", "e", "r", " ", "I", "t", "e", "m">>,
          attributes |-> <<
            AttrData(Ord, A_number, T_String, FALSE, FALSE, FALSE, <<>>),
            AttrData(Ord, A_customer, T_String, FALSE, TRUE, TRUE, Cust) >>]

\* The tokens the server hands out on login, one after the other.
NewToken(srv) == IF srv.token = <<"s", "1">> THEN <<"s", "2">>
                 ELSE <<"s", "1">>

SessionAnswer(tok) == [t |-> "session", sessionId |-> PyStr(tok)]

\* The HTTP verb urllib sends: the given method, else POST with a body, GET
\* without (src/nuclos.py:343-350).
Verb(rq) == IF rq.method # "None" THEN rq.method
            ELSE IF Truthy(rq.data) THEN "POST" ELSE "GET"

\* The work flow of a customer: Active (10) <-> Inactive (99).  The entry
\* for 99 carries its number, as older versions of the REST API do; the
\* entry for 10 does not, and the number is read off the state id.
S_Active == <<"A", "c", "t", "i", "v", "e">>
S_Inactive == <<"I", "n", "a", "c", "t", "i", "v", "e">>
StateId10 == <<"c", "u", "s", "t", "_", "1", "0">>
StateId99 == <<"c", "u", "s", "t", "_", "9", "9">>

StateName(n) == IF n = 10 THEN S_Active ELSE S_Inactive
NextStates(n) ==
    IF n = 10
    THEN << [nuclosStateId |-> StateId99, name |-> S_Inactive, number |-> 99] >>
    ELSE << [nuclosStateId |-> StateId10, name |-> S_Active] >>
StateOfId(id) == IF id = StateId10 THEN 10 ELSE 99

\* The keys of the attributes of an instance that hold its state.
K_nuclosState == <<"n", "u", "c", "l", "o", "s", "S", "t", "a", "t", "e">>
K_nuclosStateNumber == K_nuclosState \o <<"N", "u", "m", "b", "e", "r">>
StateAttributes(n) ==
    (K_nuclosState :> [t |-> "state", name |-> PyStr(StateName(n))])
    @@ (K_nuclosStateNumber :> PyInt(n))

\* The subform of a customer: its orders.
DepOrders == <<"o", "r", "d", "_", "c", "u", "s", "t", "o", "m", "e", "r">>
DEPENDENCY_META_HREF == "http://.../boMetas/{}/subBos/{}"
DependencyMeta ==
    [t |-> "dependency", name |-> <<"O", "r", "d", "e", "r", " ", "I", "t", "e", "m">>,
     boMetaId |-> Ord, refAttrId |-> Ord \o <<"_">> \o Lower(A_customer)]

\* dict.update: the entries of new written over those of old.
Overwrite(old, new) ==
    [k \in DOMAIN old \cup DOMAIN new |-> IF k \in DOMAIN new THEN new[k] ELSE old[k]]

\* A stored customer, and what GET bos/{}/{} answers for it.
Stored_bo(attributes, state, version) ==
    [exists |-> TRUE, attributes |-> attributes, state |-> state,
     version |-> version]
NoBo == [exists |-> FALSE, attributes |-> <<>>, state |-> 10, version |-> 0]

TitleOf(attributes) ==
    IF Lower(A_name) \in DOMAIN attributes THEN attributes[Lower(A_name)]
    ELSE PyStr(<<>>)

BoData(srv, id) ==
    [t |-> "data", boId |-> PyInt(id), title |-> TitleOf(srv.bos[id].attributes),
     version |-> PyInt(srv.bos[id].version),
     attributes |-> Overwrite(srv.bos[id].attributes,
                              StateAttributes(srv.bos[id].state)),
     nextStates |-> NextStates(srv.bos[id].state),
     subBos |-> srv.subBos]

\* The instances of a business object the server lists, by id: the stored
\* customers, and the orders 1..orders.
Instances(srv, bo) ==
    IF bo = Ord THEN [i \in 1..srv.orders |-> i]
    ELSE SelectSeq([i \in 1..MaxId |-> i], LAMBDA i : srv.bos[i].exists)

\* A URL parameter of the request, or the default when it is not given.
Parameter(rq, k, default) ==
    IF rq.parameters # PyNone /\ k \in DOMAIN rq.parameters
    THEN rq.parameters[k] ELSE default

\* What GET bos/{} answers: the instances after the first `offset` ones, at
\* most `chunksize` of them (all of them without a chunksize), and whether
\* the list ends with this page.
ListAnswer(srv, rq) ==
    LET held == Instances(srv, rq.path.args[1].s)
        offset == Parameter(rq, "offset", 0)
        chunksize == Parameter(rq, "chunksize", Len(held))
        end == IF offset + chunksize < Len(held) THEN offset + chunksize
               ELSE Len(held)
        page == SubSeq(held, offset + 1, end)
    IN [t |-> "page", all |-> offset + chunksize >= Len(held),
        bos |-> [i \in DOMAIN page |-> [boId |-> PyInt(page[i])]]]

\* The identifier of the instance a path names.
PathBoId(rq) == rq.path.args[2].n
Exists(srv, id) == id \in DOMAIN srv.bos /\ srv.bos[id].exists

\* Whether the server can answer the request with 2xx.
Servable(srv, rq) ==
    CASE rq.path.route = BO_INSTANCE_ROUTE /\ Verb(rq) = "PUT" ->
            /\ Exists(srv, PathBoId(rq))
            /\ rq.data.t = "update_data"
            /\ rq.data.version = PyInt(srv.bos[PathBoId(rq)].version)
      [] rq.path.route = BO_INSTANCE_ROUTE -> Exists(srv, PathBoId(rq))
      [] rq.path.route = BO_DEPENDENCY_LIST_ROUTE -> Exists(srv, PathBoId(rq))
      [] rq.path.route = BO_INSTANCE_LIST_ROUTE /\ Verb(rq) = "POST" ->
            srv.next_id <= MaxId
      [] rq.path.route = STATE_CHANGE_ROUTE ->
            /\ Exists(srv, PathBoId(rq))
            /\ \E i \in DOMAIN NextStates(srv.bos[PathBoId(rq)].state) :
                  NextStates(srv.bos[PathBoId(rq)].state)[i].nuclosStateId
                      = rq.path.args[3].s
      [] OTHER -> TRUE

\* What the server does with a request it accepts: its new state and the body
\* of its 2xx answer.
Serve(srv, rq) ==
    CASE rq.path.route = VERSION_ROUTE ->
            [srv |-> srv, body |-> PyStr(srv.version)]
      [] rq.path.route = LOGIN_ROUTE /\ Verb(rq) = "POST" ->
            [srv |-> [srv EXCEPT !.token = NewToken(srv)],
             body |-> SessionAnswer(NewToken(srv))]
      [] rq.path.route = LOGOUT_ROUTE /\ Verb(rq) = "DELETE" ->
            [srv |-> srv, body |-> PyStr(<<>>)]
      [] rq.path.route = BO_LIST_ROUTE ->
            [srv |-> srv, body |-> [t |-> "list", items |-> srv.catalog]]
      [] rq.path.route = BO_META_ROUTE ->
            [srv |-> srv, body |-> MetaData(rq.path.args[1].s)]
      [] rq.path.route = DEPENDENCY_META_HREF ->
            [srv |-> srv, body |-> DependencyMeta]
      [] rq.path.route = BO_DEPENDENCY_LIST_ROUTE ->
            [srv |-> srv, body |-> [t |-> "dependencies", bos |-> <<>>]]
      [] rq.path.route = BO_INSTANCE_ROUTE /\ Verb(rq) = "GET" ->
            [srv |-> srv, body |-> BoData(srv, PathBoId(rq))]
      [] rq.path.route = BO_INSTANCE_ROUTE /\ Verb(rq) = "DELETE" ->
            [srv |-> [srv EXCEPT !.bos[PathBoId(rq)] = NoBo],
             body |-> PyStr(<<>>)]
      [] rq.path.route = BO_INSTANCE_ROUTE /\ Verb(rq) = "PUT" ->
            LET id == PathBoId(rq)
                new == [srv EXCEPT
                          !.bos[id].attributes = Overwrite(@, rq.data.attributes),
                          !.bos[id].version = (@ + 1) % VersionMod]
            IN [srv |-> new, body |-> BoData(new, id)]
      [] rq.path.route = BO_INSTANCE_LIST_ROUTE /\ Verb(rq) = "GET" ->
            [srv |-> srv, body |-> ListAnswer(srv, rq)]
      [] rq.path.route = BO_INSTANCE_LIST_ROUTE /\ Verb(rq) = "POST" ->
            LET id == srv.next_id
                new == [srv EXCEPT
                          !.bos[id] = Stored_bo(rq.data.attributes, 10, 0),
                          !.next_id = id + 1]
            IN [srv |-> new, body |-> BoData(new, id)]
      [] rq.path.route = STATE_CHANGE_ROUTE ->
            [srv |-> [srv EXCEPT !.bos[PathBoId(rq)].state =
                                    StateOfId(rq.path.args[3].s)],
             body |-> PyStr(<<>>)]
      [] OTHER -> [srv |-> srv, body |-> PyStr(<<>>)]

\* The answers the server can give to a request: 2xx, and the failures this
\* server is subject to (a body that is not JSON, 401, 403, another error
\* status).
Faults == {"garbled", "e401", "e403", "e500"}

\* A request the server cannot serve (no such instance, a stale version, no
\* such transition) is answered with an error status: 404 stands for it.
HTTPAnswers(srv, rq) ==
    IF Servable(srv, rq)
    THEN {"ok"} \cup (srv.faults \ (IF rq.json_answer THEN {} ELSE {"garbled"}))
    ELSE {"e404"} \cup (srv.faults \ {"garbled"})

StatusCode(a) == CASE a = "e401" -> 401 [] a = "e403" -> 403 [] a = "e404" -> 404
                   [] a = "e500" -> 500 [] OTHER -> 200

(***************************************************************************)
(* NuclosAPI: the request pipeline (src/nuclos.py:147-204, 321-388).       *)
(***************************************************************************)
Rq(path, parameters, data, method, auto_login, json_answer, filename) ==
    [path |-> path, parameters |-> parameters, data |-> data,
     method |-> method, auto_login |-> auto_login,
     json_answer |-> json_answer, filename |-> filename]

\* An entry of the log: one HTTP request put on the wire, with the session
\* cookie it carried and the status it was answered with, or one call of login().
Sent(x, rq, a) ==
    [ev |-> "http", path |-> rq.path, parameters |-> rq.parameters,
     data |-> (IF Truthy(rq.data) THEN rq.data ELSE PyNone), verb |-> Verb(rq),
     auto_login |-> rq.auto_login, json_answer |-> rq.json_answer,
     filename |-> rq.filename, cookie |-> x.sid, answer |-> a,
     status |-> StatusCode(a)]

LoginEvent == [ev |-> "login"]

\* The numbers of the version text (src/nuclos.py:159-160):
\* [int(x) for x in self.version.split(" ")[0].split(".")].
VersionParts(s) ==
    LET fields == Split(FirstField(s, " "), ".")
    IN [i \in DOMAIN fields |-> ToInt(fields[i])]

\* zip(version_parts, version): False as soon as one part is below the
\* required part at the same position.
ZipAtLeast(parts, req) ==
    LET n == IF Len(parts) < Len(req) THEN Len(parts) ELSE Len(req)
    IN \A i \in 1..n : ~(parts[i] < req[i])

RECURSIVE request(_, _), login(_), version(_), require_version(_, _)

\* NuclosAPI.version: Cached, fetched with auto_login=False, json_answer=False.
version(x) ==
    Cached__call__(x, "version", <<>>,
        request(x, Rq(Path(VERSION_ROUTE, <<>>), PyNone, PyNone, "None", FALSE,
                      FALSE, PyNone)))

require_version(x, req) ==
    Bind(version(x), LAMBDA o :
        { Ret(o.x, PyBool(ZipAtLeast(VersionParts(o.val.s), req))) })

\* {"username": ..., "password": ..., "locale": ...} from the settings
LoginData == [t |-> "login_data"]

login(x) ==
    Bind(require_version([x EXCEPT !.log = Append(@, LoginEvent)], <<4, 7>>),
         LAMBDA o :
        IF ~o.val.b
        THEN { Raise(o.x, "NuclosVersionException", 0) }
        ELSE Bind(request(o.x, Rq(Path(LOGIN_ROUTE, <<>>), PyNone, LoginData,
                                  "None", FALSE, TRUE, PyNone)),
                  LAMBDA a :
                IF Truthy(a.val)
                THEN { Ret([a.x EXCEPT !.sid = a.val.sessionId], PyNone) }
                ELSE { Raise(a.x, "NuclosAuthenticationException", 0) }))

\* The call request() makes again after a 401 and a new login
\* (src/nuclos.py:383): path, data, method and json_answer are passed on,
\* auto_login is False, parameters and filename are left at their defaults.
Retry(rq) == Rq(rq.path, PyNone, rq.data, rq.method, FALSE, rq.json_answer,
                PyNone)

\* Answered, retrying after a 401 without logging in again.
Answered_NoLogin(x, rq, a) ==
    LET x1 == [x EXCEPT !.log = Append(@, Sent(x, rq, a))]
        s == Serve(x.srv, rq)
        x2 == [x1 EXCEPT !.srv = s.srv]
    IN CASE a \in {"ok", "garbled"} ->
              IF rq.filename # PyNone THEN { Ret(x2, PyNone) }
              ELSE IF ~rq.json_answer THEN { Ret(x2, s.body) }
              ELSE IF a = "garbled" THEN { Ret(x2, PyNone) }
              ELSE { Ret(x2, s.body) }
         [] a = "e401" /\ rq.auto_login ->
              request([x1 EXCEPT !.sid = PyNone], Retry(rq))
         [] a = "e403" -> { Raise(x1, "NuclosAuthenticationException", 403) }
         [] OTHER -> { Raise(x1, "NuclosHTTPException", StatusCode(a)) }

\* Answered, dropping the session on a 403 as on a 401.
Answered_DropSession(x, rq, a) ==
    LET x1 == [x EXCEPT !.log = Append(@, Sent(x, rq, a))]
        s == Serve(x.srv, rq)
        x2 == [x1 EXCEPT !.srv = s.srv]
    IN CASE a \in {"ok", "garbled"} ->
              IF rq.filename # PyNone THEN { Ret(x2, PyNone) }
              ELSE IF ~rq.json_answer THEN { Ret(x2, s.body) }
              ELSE IF a = "garbled" THEN { Ret(x2, PyNone) }
              ELSE { Ret(x2, s.body) }
         [] a = "e401" /\ rq.auto_login ->
              Bind(login([x1 EXCEPT !.sid = PyNone]),
                   LAMBDA o : request(o.x, Retry(rq)))
         [] a = "e403" ->
              { Raise([x1 EXCEPT !.sid = PyNone], "NuclosAuthenticationException",
                      403) }
         [] OTHER -> { Raise(x1, "NuclosHTTPException", StatusCode(a)) }

\* Answered, letting the ValueError of json.loads out.
Answered_Strict(x, rq, a) ==
    LET x1 == [x EXCEPT !.log = Append(@, Sent(x, rq, a))]
        s == Serve(x.srv, rq)
        x2 == [x1 EXCEPT !.srv = s.srv]
    IN CASE a \in {"ok", "garbled"} ->
              IF rq.filename # PyNone THEN { Ret(x2, PyNone) }
              ELSE IF ~rq.json_answer THEN { Ret(x2, s.body) }
              ELSE IF a = "garbled" THEN { Raise(x2, "ValueError", 0) }
              ELSE { Ret(x2, s.body) }
         [] a = "e401" /\ rq.auto_login ->
              Bind(login([x1 EXCEPT !.sid = PyNone]),
                   LAMBDA o : request(o.x, Retry(rq)))
         [] a = "e403" -> { Raise(x1, "NuclosAuthenticationException", 403) }
         [] OTHER -> { Raise(x1, "NuclosHTTPException", StatusCode(a)) }

\* One urlopen and what request() does with its answer.
Answered(x, rq, a) ==
    LET x1 == [x EXCEPT !.log = Append(@, Sent(x, rq, a))]
        s == Serve(x.srv, rq)
        x2 == [x1 EXCEPT !.srv = s.srv]
    IN CASE a \in {"ok", "garbled"} ->
              IF rq.filename # PyNone THEN { Ret(x2, PyNone) }
              ELSE IF ~rq.json_answer THEN { Ret(x2, s.body) }
              ELSE IF a = "garbled" THEN { Ret(x2, PyNone) }
              ELSE { Ret(x2, s.body) }
         [] a = "e401" /\ rq.auto_login ->
              Bind(login([x1 EXCEPT !.sid = PyNone]),
                   LAMBDA o : request(o.x, Retry(rq)))
         [] a = "e403" -> { Raise(x1, "NuclosAuthenticationException", 403) }
         [] OTHER -> { Raise(x1, "NuclosHTTPException", StatusCode(a)) }

\* request without the login of a client that holds no session
request_NoLogin(x, rq) ==
    UNION { Answered(x, rq, a) : a \in HTTPAnswers(x.srv, rq) }

request(x, rq) ==
    Bind(IF ~Truthy(x.sid) /\ rq.auto_login THEN login(x) ELSE { Ret(x, PyNone) },
         LAMBDA o :
            UNION { Answered(o.x, rq, a) : a \in HTTPAnswers(o.x.srv, rq) })

\* logout that keeps the session id
logout_KeepSession(x) ==
    IF ~Truthy(x.sid) THEN { Ret(x, PyBool(TRUE)) }
    ELSE Bind(request(x, Rq(Path(LOGOUT_ROUTE, <<>>), PyNone, PyNone, "DELETE",
                            TRUE, FALSE, PyNone)),
              LAMBDA o : { Ret(o.x, PyBool(o.val # PyNone)) })

\* NuclosAPI.logout
logout(x) ==
    IF ~Truthy(x.sid) THEN { Ret(x, PyBool(TRUE)) }
    ELSE Bind(request(x, Rq(Path(LOGOUT_ROUTE, <<>>), PyNone, PyNone, "DELETE",
                            TRUE, FALSE, PyNone)),
              LAMBDA o :
                IF o.val # PyNone
                THEN { Ret([o.x EXCEPT !.sid = PyNone], PyBool(TRUE)) }
                ELSE { Ret(o.x, PyBool(FALSE)) })

\* NuclosAPI.reconnect: logout, then Cached.clear().
reconnect(x) ==
    Bind(logout(x), LAMBDA o :
        { Ret([o.x EXCEPT !.cache = Cached_clear(@)], PyNone) })

(***************************************************************************)
(* NuclosAPI: the catalog of business objects (src/nuclos.py:213-319).     *)
(***************************************************************************)
\* The first element of a list that satisfies P (a for loop that returns on
\* its first hit).
FirstIndex(items, P(_)) ==
    CHOOSE i \in DOMAIN items : P(items[i]) /\ \A j \in 1..(i - 1) : ~P(items[j])

\* NuclosAPI._business_objects: Cached, request(BO_LIST_ROUTE).
business_objects_(x) ==
    Cached__call__(x, "_business_objects", <<>>,
        request(x, Rq(Path(BO_LIST_ROUTE, <<>>), PyNone, PyNone, "None", TRUE,
                      TRUE, PyNone)))

RECURSIVE get_bo_meta_id(_, _)
\* NuclosAPI._get_bo_meta_id: Cached, the inner call as well.
get_bo_meta_id(x, name) ==
    Cached__call__(x, "_get_bo_meta_id", <<PyStr(name)>>,
        Bind(business_objects_(x), LAMBDA o :
            LET n == Lower(name)
                Hit(bo) == Lower(bo.name) = n
            IN IF Truthy(o.val) /\ \E i \in DOMAIN o.val.items : Hit(o.val.items[i])
               THEN { Ret(o.x, PyStr(o.val.items[FirstIndex(o.val.items, Hit)].boMetaId)) }
               ELSE IF Contains(n, "_")
               THEN get_bo_meta_id(o.x, Replace(n, "_", " "))
               ELSE { Ret(o.x, PyNone) }))

\* NuclosAPI._bo_meta_id_exists: Cached.
bo_meta_id_exists(x, bo_meta_id) ==
    Cached__call__(x, "_bo_meta_id_exists", <<PyStr(bo_meta_id)>>,
        Bind(business_objects_(x), LAMBDA o :
            { Ret(o.x, PyBool(Truthy(o.val) /\ \E i \in DOMAIN o.val.items :
                                    o.val.items[i].boMetaId = bo_meta_id)) }))

\* A BusinessObject.  Cached methods are keyed by the object they are called
\* on: key is the argument tuple of the get_business_object call that made it.
BusinessObject(bo_meta_id, key) ==
    [t |-> "BusinessObject", bo_meta_id |-> bo_meta_id, key |-> key]

\* NuclosAPI.get_business_object: Cached on the arguments as given, so
\* (id) and (id, False) are two entries and two objects.
get_business_object(x, bo_meta_id, given, check_existence) ==
    LET args == IF given THEN <<PyStr(bo_meta_id), PyBool(check_existence)>>
                ELSE <<PyStr(bo_meta_id)>>
    IN Cached__call__(x, "get_business_object", args,
        IF ~check_existence
        THEN { Ret(x, BusinessObject(bo_meta_id, args)) }
        ELSE Bind(bo_meta_id_exists(x, bo_meta_id), LAMBDA o :
                { Ret(o.x, IF o.val.b THEN BusinessObject(bo_meta_id, args)
                           ELSE PyNone) }))

\* get_business_object(bo_meta_id) as a caller calls it, with any value for
\* bo_meta_id.  A value that is not a str equals no boMetaId of the catalog:
\* _bo_meta_id_exists reads the catalog and finds nothing.
get_business_object_of(x, bo_meta_id) ==
    IF bo_meta_id.t = "str"
    THEN get_business_object(x, bo_meta_id.s, FALSE, TRUE)
    ELSE Cached__call__(x, "get_business_object", <<bo_meta_id>>,
            Bind(Cached__call__(x, "_bo_meta_id_exists", <<bo_meta_id>>,
                    Bind(business_objects_(x),
                         LAMBDA o : { Ret(o.x, PyBool(FALSE)) })),
                 LAMBDA o : { Ret(o.x, PyNone) }))

\* The namespace loop of get_business_object_by_name (src/nuclos.py:294-298):
\* `for name in [name, name.capitalize()]` rebinds name, so from the second
\* namespace on both candidates are built from the capitalized name.
RECURSIVE TryNamespaces(_, _, _, _)
TryNamespaces(x, name, i, j) ==
    IF i > Len(x.ns) THEN { Ret(x, PyNone) }
    ELSE IF j > 2 THEN TryNamespaces(x, Capitalize(name), i + 1, 1)
    ELSE LET nm == IF j = 1 THEN name ELSE Capitalize(name)
             candidate_meta_id == x.ns[i] \o <<"_">> \o nm
         IN Bind(bo_meta_id_exists(x, candidate_meta_id), LAMBDA o :
                IF o.val.b
                THEN get_business_object(o.x, candidate_meta_id, FALSE, TRUE)
                ELSE TryNamespaces(o.x, name, i, j + 1))

\* NuclosAPI.add_business_object_namespace
add_business_object_namespace(x, namespace) ==
    { Ret([x EXCEPT !.ns = Append(@, namespace)], PyNone) }

\* NuclosAPI.get_business_object_by_name
get_business_object_by_name(x, name) ==
    Bind(get_bo_meta_id(x, name), LAMBDA o :
        IF Truthy(o.val)
        THEN get_business_object(o.x, o.val.s, FALSE, TRUE)
        ELSE TryNamespaces(o.x, name, 1, 1))

\* BusinessObjectMeta._data: Cached, request(BO_META_ROUTE.format(bo_meta_id)).
meta_data(x, bo) ==
    Cached__call__(x, "_data", <<bo>>,
        request(x, Rq(Path(BO_META_ROUTE, <<PyStr(bo.bo_meta_id)>>), PyNone,
                      PyNone, "None", TRUE, TRUE, PyNone)))

(***************************************************************************)
(* BusinessObjectMeta and AttributeMeta (src/nuclos.py:423-558).           *)
(***************************************************************************)
AttributeMeta(bo, data) ==
    [t |-> "AttributeMeta", bo_meta_id |-> bo.bo_meta_id, d |-> data]

\* BusinessObjectMeta.attributes: one AttributeMeta per entry of
\* _data["attributes"]; subscripting None raises TypeError.
attributes(x, bo) ==
    Bind(meta_data(x, bo), LAMBDA o :
        IF o.val = PyNone THEN { Raise(o.x, "TypeError", 0) }
        ELSE { Ret(o.x, [t |-> "list",
                         items |-> [i \in DOMAIN o.val.attributes |->
                                      AttributeMeta(bo, o.val.attributes[i])]]) })

\* BusinessObjectMeta.get_attribute
meta_get_attribute(x, bo, bo_attr_id) ==
    Bind(attributes(x, bo), LAMBDA o :
        LET Hit(attr) == attr.d.boAttrId = bo_attr_id
        IN IF \E i \in DOMAIN o.val.items : Hit(o.val.items[i])
           THEN { Ret(o.x, o.val.items[FirstIndex(o.val.items, Hit)]) }
           ELSE { Ret(o.x, PyNone) })

\* BusinessObjectMeta.get_attribute_by_name
RECURSIVE meta_get_attribute_by_name(_, _, _)
meta_get_attribute_by_name(x, bo, name) ==
    Bind(attributes(x, bo), LAMBDA o :
        LET n == Lower(name)
            Hit(attr) == Lower(attr.d.name) = n
        IN IF \E i \in DOMAIN o.val.items : Hit(o.val.items[i])
           THEN { Ret(o.x, o.val.items[FirstIndex(o.val.items, Hit)]) }
           ELSE IF Contains(n, "_")
           THEN meta_get_attribute_by_name(o.x, bo, Replace(n, "_", " "))
           ELSE { Ret(o.x, PyNone) })

\* AttributeMeta.data_index
data_index(attr) ==
    IF StartsWith(attr.d.boAttrId, attr.bo_meta_id)
    THEN From(attr.d.boAttrId, Len(attr.bo_meta_id) + 1)
    ELSE attr.d.boAttrId

\* AttributeMeta.is_document
is_document(attr) == Lower(attr.d.type) = Lower(T_Document)

\* AttributeMeta.referenced_bo
referenced_bo(x, attr) ==
    get_business_object(x, attr.d.referencingBoMetaId, FALSE, TRUE)

(***************************************************************************)
(* BusinessObjectInstance (src/nuclos.py:701-1181).  An instance is        *)
(*   bo       _business_object      bo_id    _bo_id, 0 for None            *)
(*   data     _data                 deleted  _deleted                      *)
(*   updated  _updated_attribute_data, a function on the data indices set  *)
(***************************************************************************)
BusinessObjectInstance(bo, bo_id) ==
    [t |-> "instance", bo |-> bo, bo_id |-> bo_id, data |-> PyNone,
     deleted |-> FALSE, updated |-> <<>>]

NoUpdates == <<>>

\* BusinessObjectInstance._url, once _bo_id is known to be set
Url(i) == Path(BO_INSTANCE_ROUTE, <<PyStr(i.bo.bo_meta_id), PyInt(i.bo_id)>>)

\* data without the check for a deleted instance
data_OfDeleted(x) ==
    IF x.inst.bo_id = 0 THEN { Raise(x, "NuclosException", 0) }
    ELSE IF ~Truthy(x.inst.data)
    THEN Bind(request(x, Rq(Url(x.inst), PyNone, PyNone, "None", TRUE, TRUE,
                            PyNone)),
              LAMBDA o : { Ret([o.x EXCEPT !.inst.data = o.val], o.val) })
    ELSE { Ret(x, x.inst.data) }

\* data that asks the server on every read
data_Refetch(x) ==
    IF x.inst.bo_id = 0 THEN { Raise(x, "NuclosException", 0) }
    ELSE IF x.inst.deleted THEN { Raise(x, "NuclosException", 0) }
    ELSE Bind(request(x, Rq(Url(x.inst), PyNone, PyNone, "None", TRUE, TRUE,
                            PyNone)),
              LAMBDA o : { Ret([o.x EXCEPT !.inst.data = o.val], o.val) })

\* BusinessObjectInstance.data of the instance the caller holds
data_(x) ==
    IF x.inst.bo_id = 0 THEN { Raise(x, "NuclosException", 0) }
    ELSE IF x.inst.deleted THEN { Raise(x, "NuclosException", 0) }
    ELSE IF ~Truthy(x.inst.data)
    THEN Bind(request(x, Rq(Url(x.inst), PyNone, PyNone, "None", TRUE, TRUE,
                            PyNone)),
              LAMBDA o : { Ret([o.x EXCEPT !.inst.data = o.val], o.val) })
    ELSE { Ret(x, x.inst.data) }

\* self.data[...]: subscripting None raises TypeError
data_of(x) ==
    Bind(data_(x), LAMBDA o :
        IF o.val = PyNone THEN { Raise(o.x, "TypeError", 0) } ELSE { o })

\* refresh, keeping the data loaded
refresh_KeepData(x) ==
    IF x.inst.deleted THEN { Raise(x, "NuclosException", 0) }
    ELSE { Ret([x EXCEPT !.inst.updated = NoUpdates], PyNone) }

\* refresh, keeping the pending writes
refresh_KeepUpdates(x) ==
    IF x.inst.deleted THEN { Raise(x, "NuclosException", 0) }
    ELSE { Ret([x EXCEPT !.inst.data = PyNone], PyNone) }

\* refresh that drops the stored dependency meta data as well
refresh_ClearMetas(x) ==
    IF x.inst.deleted THEN { Raise(x, "NuclosException", 0) }
    ELSE { Ret([x EXCEPT !.inst.data = PyNone, !.inst.updated = NoUpdates,
                         !.cache["_dependency_metas"] = {}], PyNone) }

\* BusinessObjectInstance.refresh
refresh(x) ==
    IF x.inst.deleted THEN { Raise(x, "NuclosException", 0) }
    ELSE { Ret([x EXCEPT !.inst.data = PyNone, !.inst.updated = NoUpdates],
               PyNone) }

\* delete without the check for an instance that is deleted already
delete_Again(x) ==
    IF x.inst.bo_id = 0 THEN { Raise(x, "NuclosException", 0) }
    ELSE Except(Bind(request(x, Rq(Url(x.inst), PyNone, PyNone, "DELETE", TRUE,
                                   FALSE, PyNone)),
                     LAMBDA o : { Ret([o.x EXCEPT !.inst.deleted = TRUE],
                                      PyBool(TRUE)) }),
                "NuclosHTTPException",
                LAMBDA o : { Ret(o.x, PyBool(FALSE)) })

\* delete that takes the id from the instance it deleted
delete_Unset(x) ==
    IF x.inst.deleted THEN { Ret(x, PyBool(TRUE)) }
    ELSE IF x.inst.bo_id = 0 THEN { Raise(x, "NuclosException", 0) }
    ELSE Except(Bind(request(x, Rq(Url(x.inst), PyNone, PyNone, "DELETE", TRUE,
                                   FALSE, PyNone)),
                     LAMBDA o : { Ret([o.x EXCEPT !.inst.deleted = TRUE,
                                                  !.inst.bo_id = 0],
                                      PyBool(TRUE)) }),
                "NuclosHTTPException",
                LAMBDA o : { Ret(o.x, PyBool(FALSE)) })

\* BusinessObjectInstance.delete (can_delete is always True)
delete(x) ==
    IF x.inst.deleted THEN { Ret(x, PyBool(TRUE)) }
    ELSE IF x.inst.bo_id = 0 THEN { Raise(x, "NuclosException", 0) }
    ELSE Except(Bind(request(x, Rq(Url(x.inst), PyNone, PyNone, "DELETE", TRUE,
                                   FALSE, PyNone)),
                     LAMBDA o : { Ret([o.x EXCEPT !.inst.deleted = TRUE],
                                      PyBool(TRUE)) }),
                "NuclosHTTPException",
                LAMBDA o : { Ret(o.x, PyBool(FALSE)) })

\* _update_data that leaves the pending writes out
update_data_NoWrites(x) ==
    IF x.inst.bo_id = 0
    THEN { Ret(x, [t |-> "update_data", boMetaId |-> x.inst.bo.bo_meta_id,
                   attributes |-> NoUpdates, flag |-> "insert",
                   boId |-> PyNone, version |-> PyNone]) }
    ELSE Bind(data_of(x), LAMBDA o :
            { Ret(o.x, [t |-> "update_data", boMetaId |-> x.inst.bo.bo_meta_id,
                        attributes |-> NoUpdates, flag |-> "update",
                        boId |-> PyInt(x.inst.bo_id),
                        version |-> o.val.version]) })

\* BusinessObjectInstance._update_data
update_data(x) ==
    IF x.inst.bo_id = 0
    THEN { Ret(x, [t |-> "update_data", boMetaId |-> x.inst.bo.bo_meta_id,
                   attributes |-> x.inst.updated, flag |-> "insert",
                   boId |-> PyNone, version |-> PyNone]) }
    ELSE Bind(data_of(x), LAMBDA o :
            { Ret(o.x, [t |-> "update_data", boMetaId |-> x.inst.bo.bo_meta_id,
                        attributes |-> x.inst.updated, flag |-> "update",
                        boId |-> PyInt(x.inst.bo_id),
                        version |-> o.val.version]) })

\* save that keeps the pending writes after a successful request
save_KeepUpdates(x) ==
    IF x.inst.deleted THEN { Raise(x, "NuclosException", 0) }
    ELSE IF DOMAIN x.inst.updated = {} THEN { Ret(x, PyBool(TRUE)) }
    ELSE Except(
           Bind(update_data(x), LAMBDA u :
             Bind(request(u.x, Rq(IF x.inst.bo_id = 0
                                  THEN Path(BO_INSTANCE_LIST_ROUTE,
                                            <<PyStr(x.inst.bo.bo_meta_id)>>)
                                  ELSE Url(x.inst),
                                  PyNone, u.val,
                                  IF x.inst.bo_id = 0 THEN "POST" ELSE "PUT",
                                  TRUE, TRUE, PyNone)),
                  LAMBDA o :
                    IF Truthy(o.val)
                    THEN { Ret([o.x EXCEPT !.inst.bo_id = o.val.boId.n,
                                           !.inst.data = o.val],
                               PyBool(TRUE)) }
                    ELSE { Ret(o.x, PyBool(FALSE)) })),
           "NuclosHTTPException",
           LAMBDA o : { Ret(o.x, PyBool(FALSE)) })

\* save that gives the pending writes up when the request fails
save_DropOnFail(x) ==
    IF x.inst.deleted THEN { Raise(x, "NuclosException", 0) }
    ELSE IF DOMAIN x.inst.updated = {} THEN { Ret(x, PyBool(TRUE)) }
    ELSE Except(
           Bind(update_data(x), LAMBDA u :
             Bind(request(u.x, Rq(IF x.inst.bo_id = 0
                                  THEN Path(BO_INSTANCE_LIST_ROUTE,
                                            <<PyStr(x.inst.bo.bo_meta_id)>>)
                                  ELSE Url(x.inst),
                                  PyNone, u.val,
                                  IF x.inst.bo_id = 0 THEN "POST" ELSE "PUT",
                                  TRUE, TRUE, PyNone)),
                  LAMBDA o :
                    IF Truthy(o.val)
                    THEN { Ret([o.x EXCEPT
                                  !.inst.bo_id = IF x.inst.bo_id = 0
                                                 THEN o.val.boId.n ELSE @,
                                  !.inst.data = o.val,
                                  !.inst.updated = NoUpdates],
                               PyBool(TRUE)) }
                    ELSE { Ret(o.x, PyBool(FALSE)) })),
           "NuclosHTTPException",
           LAMBDA o : { Ret([o.x EXCEPT !.inst.updated = NoUpdates],
                            PyBool(FALSE)) })

\* BusinessObjectInstance.save (can_insert and can_update are always True).
\* An insert sets _bo_id from the answer; an update leaves it, and here the
\* answer names the instance that was put.
save(x) ==
    IF x.inst.deleted THEN { Raise(x, "NuclosException", 0) }
    ELSE IF DOMAIN x.inst.updated = {} THEN { Ret(x, PyBool(TRUE)) }
    ELSE Except(
           Bind(update_data(x), LAMBDA u :
             Bind(request(u.x, Rq(IF x.inst.bo_id = 0
                                  THEN Path(BO_INSTANCE_LIST_ROUTE,
                                            <<PyStr(x.inst.bo.bo_meta_id)>>)
                                  ELSE Url(x.inst),
                                  PyNone, u.val,
                                  IF x.inst.bo_id = 0 THEN "POST" ELSE "PUT",
                                  TRUE, TRUE, PyNone)),
                  LAMBDA o :
                    IF Truthy(o.val)
                    THEN { Ret([o.x EXCEPT
                                  !.inst.bo_id = IF x.inst.bo_id = 0
                                                 THEN o.val.boId.n ELSE @,
                                  !.inst.data = o.val,
                                  !.inst.updated = NoUpdates],
                               PyBool(TRUE)) }
                    ELSE { Ret(o.x, PyBool(FALSE)) })),
           "NuclosHTTPException",
           LAMBDA o : { Ret(o.x, PyBool(FALSE)) })

\* The files on the caller's disk that open() can read.
Files == { <<"d", "/", "f">>, <<"g">> }

\* set_attribute without the conversion to str
StrOf_Same(value) == value

\* str(value) of set_attribute for the values that are not str; the str of
\* an object is a text that names its class.
StrOf(value) ==
    CASE value.t = "int" -> PyStr(IntToStr(value.n))
      [] value.t = "bool" -> PyStr(IF value.b THEN <<"T", "r", "u", "e">>
                                   ELSE <<"F", "a", "l", "s", "e">>)
      [] OTHER -> PyStr(<<"<", "o", "b", "j", "e", "c", "t", ">">>)

\* value.title of the instance given for a reference attribute: it loads the
\* data of that instance when they are not loaded yet.
title_of(x, value) ==
    IF value.bo_id = 0 THEN { Raise(x, "NuclosException", 0) }
    ELSE IF value.deleted THEN { Raise(x, "NuclosException", 0) }
    ELSE IF ~Truthy(value.data)
    THEN Bind(request(x, Rq(Url(value), PyNone, PyNone, "None", TRUE, TRUE,
                            PyNone)),
              LAMBDA o : IF o.val = PyNone THEN { Raise(o.x, "TypeError", 0) }
                         ELSE { Ret(o.x, o.val.title) })
    ELSE { Ret(x, value.data.title) }

\* What set_attribute writes for the value (src/nuclos.py:1119-1154).
Converted(x, attr, value) ==
    IF is_document(attr)
    THEN IF value = PyNone THEN { Ret(x, value) }
         ELSE IF value.t # "str" THEN { Raise(x, "TypeError", 0) }
         ELSE IF value.s \notin Files THEN { Raise(x, "FileNotFoundError", 0) }
         ELSE { Ret(x, [t |-> "document",
                        data |-> [t |-> "base64", file |-> value.s],
                        name |-> PyStr(Basename(value.s))]) }
    ELSE IF attr.d.reference
    THEN IF value = PyNone
         THEN { Ret(x, [t |-> "reference", id |-> PyNone, name |-> PyStr(<<>>)]) }
         ELSE IF value.t # "instance"
         THEN { Raise(x, "NuclosValueException", 0) }
         ELSE Bind(referenced_bo(x, attr), LAMBDA r :
                IF r.val = PyNone THEN { Raise(r.x, "AttributeError", 0) }
                ELSE IF r.val.bo_meta_id # value.bo.bo_meta_id
                THEN { Raise(r.x, "NuclosValueException", 0) }
                ELSE Bind(title_of(r.x, value), LAMBDA n :
                        { Ret(n.x, [t |-> "reference",
                                    id |-> PyInt(value.bo_id),
                                    name |-> n.val]) }))
    ELSE IF attr.d.type = T_String /\ value.t # "str" /\ value # PyNone
    THEN { Ret(x, StrOf(value)) }
    ELSE { Ret(x, value) }

\* set_attribute that reads the data of the instance before it writes.
set_attribute_Loading(x, bo_attr_id, value) ==
    Bind(data_of(x), LAMBDA d :
    Bind(meta_get_attribute(d.x, d.x.inst.bo, bo_attr_id), LAMBDA a :
        IF a.val = PyNone THEN { Raise(a.x, "AttributeError", 0) }
        ELSE IF a.val.d.readonly
        THEN { Raise(a.x, "NuclosAuthenticationException", 0) }
        ELSE IF value = PyNone /\ ~a.val.d.nullable
        THEN { Raise(a.x, "NuclosAuthenticationException", 0) }
        ELSE Bind(Converted(a.x, a.val, value), LAMBDA c :
                { Ret([c.x EXCEPT !.inst.updated =
                         Overwrite(@, (data_index(a.val) :> c.val))], PyNone) })))

\* BusinessObjectInstance.set_attribute
set_attribute(x, bo_attr_id, value) ==
    Bind(meta_get_attribute(x, x.inst.bo, bo_attr_id), LAMBDA a :
        IF a.val = PyNone THEN { Raise(a.x, "AttributeError", 0) }
        ELSE IF a.val.d.readonly
        THEN { Raise(a.x, "NuclosAuthenticationException", 0) }
        ELSE IF value = PyNone /\ ~a.val.d.nullable
        THEN { Raise(a.x, "NuclosAuthenticationException", 0) }
        ELSE Bind(Converted(a.x, a.val, value), LAMBDA c :
                { Ret([c.x EXCEPT !.inst.updated =
                         Overwrite(@, (data_index(a.val) :> c.val))], PyNone) }))

\* What get_attribute returns for the data found (src/nuclos.py:1052-1058).
Presented(x, attr, data) ==
    IF is_document(attr) /\ data # PyNone THEN { Ret(x, data.name) }
    ELSE IF attr.d.reference
    THEN IF data # PyNone /\ data.id # PyNone
         THEN Bind(referenced_bo(x, attr), LAMBDA r :
                IF r.val = PyNone THEN { Raise(r.x, "AttributeError", 0) }
                ELSE { Ret(r.x, BusinessObjectInstance(r.val, data.id.n)) })
         ELSE { Ret(x, PyNone) }
    ELSE { Ret(x, data) }

\* get_attribute that looks at the loaded data before the pending writes.
get_attribute_LoadedFirst(x, bo_attr_id) ==
    Bind(meta_get_attribute(x, x.inst.bo, bo_attr_id), LAMBDA a :
        IF a.val = PyNone THEN { Raise(a.x, "AttributeError", 0) }
        ELSE IF /\ a.x.inst.data # PyNone
                /\ data_index(a.val) \in DOMAIN a.x.inst.data.attributes
        THEN Presented(a.x, a.val, a.x.inst.data.attributes[data_index(a.val)])
        ELSE IF data_index(a.val) \in DOMAIN a.x.inst.updated
        THEN Presented(a.x, a.val, a.x.inst.updated[data_index(a.val)])
        ELSE Bind(data_of(a.x), LAMBDA d :
                IF data_index(a.val) \in DOMAIN d.val.attributes
                THEN Presented(d.x, a.val, d.val.attributes[data_index(a.val)])
                ELSE IF a.val.d.type = T_Boolean
                THEN { Ret(d.x, PyBool(FALSE)) }
                ELSE { Ret(d.x, PyNone) }))

\* BusinessObjectInstance.get_attribute
get_attribute(x, bo_attr_id) ==
    Bind(meta_get_attribute(x, x.inst.bo, bo_attr_id), LAMBDA a :
        IF a.val = PyNone THEN { Raise(a.x, "AttributeError", 0) }
        ELSE IF data_index(a.val) \in DOMAIN a.x.inst.updated
        THEN Presented(a.x, a.val, a.x.inst.updated[data_index(a.val)])
        ELSE Bind(data_of(a.x), LAMBDA d :
                IF data_index(a.val) \in DOMAIN d.val.attributes
                THEN Presented(d.x, a.val, d.val.attributes[data_index(a.val)])
                ELSE IF a.val.d.type = T_Boolean
                THEN { Ret(d.x, PyBool(FALSE)) }
                ELSE { Ret(d.x, PyNone) }))

\* BusinessObjectInstance.get_attribute_by_name
get_attribute_by_name(x, name) ==
    Bind(meta_get_attribute_by_name(x, x.inst.bo, name), LAMBDA a :
        IF Truthy(a.val) THEN get_attribute(a.x, a.val.d.boAttrId)
        ELSE { Raise(a.x, "AttributeError", 0) })

\* BusinessObjectInstance.set_attribute_by_name
set_attribute_by_name(x, name, value) ==
    Bind(meta_get_attribute_by_name(x, x.inst.bo, name), LAMBDA a :
        IF Truthy(a.val) THEN set_attribute(a.x, a.val.d.boAttrId, value)
        ELSE { Raise(a.x, "AttributeError", 0) })

\* BusinessObjectInstance.current_state_name
current_state_name(x) ==
    Bind(data_of(x), LAMBDA d :
        { Ret(d.x, d.val.attributes[K_nuclosState].name) })

\* BusinessObjectInstance.current_state_number
current_state_number(x) ==
    Bind(data_of(x), LAMBDA d :
        { Ret(d.x, d.val.attributes[K_nuclosStateNumber]) })

\* number_for_state of _get_state_id: the "number" of the entry when it has
\* one, else the digits after the last "_" of its id, else None (-1 here).
number_for_state(state) ==
    IF "number" \in DOMAIN state THEN state.number
    ELSE LET state_id == state.nuclosStateId
             state_number == From(state_id, LastIndex(state_id, "_"))
         IN IF IsDigit(state_number) THEN ToInt(state_number) ELSE -1

\* _get_state_id that takes the first next state when no next state has the
\* number.
get_state_id_First(x, number) ==
    Bind(data_of(x), LAMBDA d :
        LET Hit(next_state) == number_for_state(next_state) = number
        IN IF \E i \in DOMAIN d.val.nextStates : Hit(d.val.nextStates[i])
           THEN { Ret(d.x, PyStr(d.val.nextStates[
                              FirstIndex(d.val.nextStates, Hit)].nuclosStateId)) }
           ELSE { Ret(d.x, PyStr(d.val.nextStates[1].nuclosStateId)) })

\* BusinessObjectInstance._get_state_id
get_state_id(x, number) ==
    Bind(data_of(x), LAMBDA d :
        LET Hit(next_state) == number_for_state(next_state) = number
        IN IF \E i \in DOMAIN d.val.nextStates : Hit(d.val.nextStates[i])
           THEN { Ret(d.x, PyStr(d.val.nextStates[
                              FirstIndex(d.val.nextStates, Hit)].nuclosStateId)) }
           ELSE { Raise(d.x, "NuclosValueException", 0) })

\* BusinessObjectInstance._get_state_id_by_name
get_state_id_by_name(x, name) ==
    Bind(data_of(x), LAMBDA d :
        LET Hit(next_state) == Lower(next_state.name) = Lower(name)
        IN IF \E i \in DOMAIN d.val.nextStates : Hit(d.val.nextStates[i])
           THEN { Ret(d.x, PyStr(d.val.nextStates[
                              FirstIndex(d.val.nextStates, Hit)].nuclosStateId)) }
           ELSE { Raise(d.x, "NuclosValueException", 0) })

\* _change_to_state without the refresh after the request
change_to_state_NoRefresh(x, state_id) ==
    Bind(request(x, Rq(Path(STATE_CHANGE_ROUTE,
                            <<PyStr(x.inst.bo.bo_meta_id), PyInt(x.inst.bo_id),
                              state_id>>),
                       PyNone, PyNone, "None", TRUE, FALSE, PyNone)),
         LAMBDA o : { Ret(o.x, PyNone) })

\* _change_to_state that refreshes whether the request failed or not
change_to_state_Finally(x, state_id) ==
    LET S == request(x, Rq(Path(STATE_CHANGE_ROUTE,
                                <<PyStr(x.inst.bo.bo_meta_id),
                                  PyInt(x.inst.bo_id), state_id>>),
                           PyNone, PyNone, "None", TRUE, FALSE, PyNone))
    IN UNION { IF o.exc = "" THEN refresh(o.x)
               ELSE { Raise(r.x, o.exc, o.code) : r \in refresh(o.x) } :
               o \in S }

\* BusinessObjectInstance._change_to_state
change_to_state_(x, state_id) ==
    Bind(request(x, Rq(Path(STATE_CHANGE_ROUTE,
                            <<PyStr(x.inst.bo.bo_meta_id), PyInt(x.inst.bo_id),
                              state_id>>),
                       PyNone, PyNone, "None", TRUE, FALSE, PyNone)),
         LAMBDA o : refresh(o.x))

\* BusinessObjectInstance.change_to_state
change_to_state(x, number) ==
    Bind(get_state_id(x, number), LAMBDA s : change_to_state_(s.x, s.val))

\* BusinessObjectInstance.change_to_state_by_name
change_to_state_by_name(x, name) ==
    Bind(get_state_id_by_name(x, name), LAMBDA s : change_to_state_(s.x, s.val))

\* The loop of _dependency_metas: one request per entry of subBos.
RECURSIVE FetchMetas(_, _, _, _)
FetchMetas(x, deps, i, metas) ==
    IF i > Len(deps) THEN { Ret(x, [t |-> "metas", items |-> metas]) }
    ELSE Bind(request(x, Rq(Path(DEPENDENCY_META_HREF,
                                 <<PyStr(x.inst.bo.bo_meta_id), PyStr(deps[i])>>),
                            PyNone, PyNone, "None", TRUE, TRUE, PyNone)),
              LAMBDA o : FetchMetas(o.x, deps, i + 1,
                                    Append(metas, [dep |-> deps[i],
                                                   meta |-> o.val])))

\* BusinessObjectInstance._dependency_metas: Cached on the instance (the
\* caller holds one instance; the entry is keyed by it).
dependency_metas(x) ==
    Cached__call__(x, "_dependency_metas", <<PyStr(<<"s", "e", "l", "f">>)>>,
        Bind(data_of(x), LAMBDA d : FetchMetas(d.x, d.val.subBos, 1, <<>>)))

\* BusinessObjectInstance._get_dependency_id_by_name: the first dependency
\* whose meta data carry the name; subscripting a None meta raises TypeError.
RECURSIVE get_dependency_id_by_name(_, _)
get_dependency_id_by_name(x, name) ==
    Bind(dependency_metas(x), LAMBDA m :
        LET n == Lower(name)
            Stop(e) == e.meta = PyNone \/ Lower(e.meta.name) = n
        IN IF \E i \in DOMAIN m.val.items : Stop(m.val.items[i])
           THEN IF m.val.items[FirstIndex(m.val.items, Stop)].meta = PyNone
                THEN { Raise(m.x, "TypeError", 0) }
                ELSE { Ret(m.x, PyStr(m.val.items[
                                    FirstIndex(m.val.items, Stop)].dep)) }
           ELSE IF Contains(n, "_")
           THEN get_dependency_id_by_name(m.x, Replace(n, "_", " "))
           ELSE { Ret(m.x, PyNone) })

\* BusinessObjectInstance.get_dependencies, for a dependency id that
\* _get_dependency_id_by_name returned: _get_dependency_bo, then the request
\* for the list.
get_dependencies(x, dependency_id) ==
    Bind(dependency_metas(x), LAMBDA m :
        LET Is(e) == e.dep = dependency_id
            meta == m.val.items[FirstIndex(m.val.items, Is)].meta
        IN Bind(get_business_object(m.x, meta.boMetaId, TRUE, FALSE), LAMBDA b :
             Bind(request(b.x, Rq(Path(BO_DEPENDENCY_LIST_ROUTE,
                                       <<PyStr(x.inst.bo.bo_meta_id),
                                         PyInt(x.inst.bo_id),
                                         PyStr(dependency_id)>>),
                                  PyNone, PyNone, "None", TRUE, TRUE, PyNone)),
                  LAMBDA r :
                    IF r.val = PyNone THEN { Raise(r.x, "TypeError", 0) }
                    ELSE { Ret(r.x, [t |-> "list", items |-> r.val.bos]) })))

\* BusinessObjectInstance.get_dependencies_by_name
get_dependencies_by_name(x, name) ==
    Bind(get_dependency_id_by_name(x, name), LAMBDA d :
        IF d.val # PyNone THEN get_dependencies(d.x, d.val.s)
        ELSE { Raise(d.x, "AttributeError", 0) })

\* BusinessObjectInstance.__getitem__ with a str (and __getattr__ with a
\* name that does not start with create_): the attribute of that name, else
\* the dependencies of that name; when both raise AttributeError, the first.
getitem(x, name) ==
    Except(get_attribute_by_name(x, name), "AttributeError", LAMBDA e :
        Except(get_dependencies_by_name(e.x, name), "AttributeError",
               LAMBDA f : { Raise(f.x, "AttributeError", 0) }))

(***************************************************************************)
(* Method calls as actions.                                                *)
(***************************************************************************)
\* The state a call starts in, with nothing logged yet.
X == [self |-> 1, sid |-> session_id, ns |-> bo_namespaces, cache |-> cache,
      srv |-> server, inst |-> inst, log |-> <<>>]

\* The call sent at least one HTTP request.
HitsTransport(log) == \E i \in DOMAIN log : log[i].ev = "http"

\* The call `op(arg)` ends with outcome o.
Commit(o, op, arg) ==
    /\ session_id' = o.x.sid
    /\ bo_namespaces' = o.x.ns
    /\ cache' = o.x.cache
    /\ server' = o.x.srv
    /\ inst' = o.x.inst
    /\ last' = [op |-> op, arg |-> arg, exc |-> o.exc, code |-> o.code,
                val |-> o.val, log |-> o.x.log,
                prev |-> [op |-> last.op, exc |-> last.exc,
                          http |-> HitsTransport(last.log),
                          yes |-> last.val = PyBool(TRUE)]]
    /\ peer' = peer

\* The second NuclosAPI object, before it logged in.
NoPeer == [session_id |-> PyNone]

\* The state a call on the second NuclosAPI object works on: its own
\* session_id, and the Cached objects, which are those of the class.
XPeer == [X EXCEPT !.self = 2, !.sid = peer.session_id]

\* The call `op(arg)` on the second NuclosAPI object ends with outcome o.
CommitPeer(o, op, arg) ==
    /\ peer' = [session_id |-> o.x.sid]
    /\ cache' = o.x.cache
    /\ server' = o.x.srv
    /\ UNCHANGED <<session_id, bo_namespaces, inst>>
    /\ last' = [op |-> op, arg |-> arg, exc |-> o.exc, code |-> o.code,
                val |-> o.val, log |-> o.x.log,
                prev |-> [op |-> last.op, exc |-> last.exc,
                          http |-> HitsTransport(last.log),
                          yes |-> last.val = PyBool(TRUE)]]

\* The BusinessObject the caller got with nuclos.get_business_object(Cust)
\* or by its name, and the instance held before the caller gets one.
CustomerBo == BusinessObject(Cust, <<PyStr(Cust)>>)
NoInstance == BusinessObjectInstance(CustomerBo, 0)

NoCall == [op |-> "", arg |-> PyNone, exc |-> "", code |-> 0, val |-> PyNone,
           log |-> <<>>,
           prev |-> [op |-> "", exc |-> "", http |-> FALSE, yes |-> FALSE]]

\* The requests the caller makes directly: the list of business objects, a
\* search with URL parameters, and a download into a file.
CallerRequests ==
    { Rq(Path(BO_LIST_ROUTE, <<>>), PyNone, PyNone, "None", al, TRUE, PyNone)
        : al \in BOOLEAN }
    \cup
    { Rq(Path(BO_INSTANCE_LIST_ROUTE, <<PyStr(<<"c", "u", "s", "t">>)>>),
         [t |-> "parameters", search |-> <<"J", "o">>], PyNone, "None", al,
         TRUE, PyNone) : al \in BOOLEAN }
    \cup
    { Rq(Path(BO_LIST_ROUTE, <<>>), PyNone, PyNone, "None", al, FALSE,
         PyStr(<<"o", "u", "t">>)) : al \in BOOLEAN }

Call_request == \E rq \in CallerRequests : \E o \in request(X, rq) :
                    Commit(o, "request", rq)
Call_login == \E o \in login(X) : Commit(o, "login", PyNone)
Call_logout == \E o \in logout(X) : Commit(o, "logout", PyNone)
Call_reconnect == \E o \in reconnect(X) : Commit(o, "reconnect", PyNone)
Call_version == \E o \in version(X) : Commit(o, "version", PyNone)

\* The server as a run starts: nobody logged in yet.
\* It holds one customer, J, in state Active.
Server(v, catalog, faults) ==
    [version |-> v, token |-> <<"s", "2">>, catalog |-> catalog,
     faults |-> faults,
     bos |-> [id \in 1..MaxId |->
                IF id = 1 THEN Stored_bo((Lower(A_name) :> PyStr(<<"J">>)), 10, 0)
                ELSE NoBo],
     next_id |-> 2, orders |-> 0, subBos |-> << DepOrders >>]

EmptyCache == [f \in CachedNames |-> {}]

InitSession ==
    /\ session_id = PyNone
    /\ bo_namespaces = <<>>
    /\ cache = EmptyCache
    /\ server \in { Server(v, ExampleCatalog, Faults) : v \in ServerVersions }
    /\ inst = NoInstance
    /\ last = NoCall
    /\ peer = NoPeer

NextSession ==
    \/ Call_request
    \/ Call_login
    \/ Call_logout
    \/ Call_reconnect
    \/ Call_version

SpecSession == InitSession /\ [][NextSession]_vars

(***************************************************************************)
(* The cached reads of the catalog, with reconnect().                      *)
(***************************************************************************)
LookupNames == { <<"o", "r", "d", "e", "r", "_", "I", "t", "e", "m">>,
                 <<"n", "o", "_", "b", "o">> }
LookupIds == { Cust, <<"n", "o">> }

Call_business_objects ==
    \E o \in business_objects_(X) : Commit(o, "_business_objects", PyNone)
Call_get_bo_meta_id ==
    \E n \in LookupNames : \E o \in get_bo_meta_id(X, n) :
        Commit(o, "_get_bo_meta_id", PyStr(n))
Call_bo_meta_id_exists ==
    \E id \in LookupIds : \E o \in bo_meta_id_exists(X, id) :
        Commit(o, "_bo_meta_id_exists", PyStr(id))
Call_meta_data ==
    \E o \in meta_data(X, CustomerBo) :
        Commit(o, "_data", PyStr(Cust))

\* What a caller passes as bo_meta_id: an id, or a list holding one.
BoMetaIds == { PyStr(id) : id \in LookupIds } \cup
             { [t |-> "list", items |-> <<PyStr(Cust)>>] }
Call_get_business_object ==
    \E id \in BoMetaIds : \E o \in get_business_object_of(X, id) :
        Commit(o, "get_business_object", id)

InitCatalog ==
    /\ session_id = PyNone
    /\ bo_namespaces = <<>>
    /\ cache = EmptyCache
    /\ server = Server(<<"4", ".", "2", "0", ".", "1">>, ExampleCatalog,
                        {"garbled", "e401"})
    /\ inst = NoInstance
    /\ last = NoCall
    /\ peer = NoPeer

NextCatalog ==
    \/ Call_version
    \/ Call_business_objects
    \/ Call_get_bo_meta_id
    \/ Call_bo_meta_id_exists
    \/ Call_meta_data
    \/ Call_get_business_object
    \/ Call_reconnect

SpecCatalog == InitCatalog /\ [][NextCatalog]_vars

(***************************************************************************)
(* Two NuclosAPI objects in one process, each reading the catalog and      *)
(* reconnecting.                                                           *)
(***************************************************************************)
Peer_version == \E o \in version(XPeer) : CommitPeer(o, "peer.version", PyNone)
Peer_business_objects ==
    \E o \in business_objects_(XPeer) :
        CommitPeer(o, "peer._business_objects", PyNone)
Peer_get_bo_meta_id ==
    \E n \in LookupNames : \E o \in get_bo_meta_id(XPeer, n) :
        CommitPeer(o, "peer._get_bo_meta_id", PyStr(n))
Peer_reconnect ==
    \E o \in reconnect(XPeer) : CommitPeer(o, "peer.reconnect", PyNone)

InitClients ==
    /\ session_id = PyNone
    /\ bo_namespaces = <<>>
    /\ cache = EmptyCache
    /\ server = Server(<<"4", ".", "2", "0", ".", "1">>, ExampleCatalog, {})
    /\ inst = NoInstance
    /\ last = NoCall
    /\ peer = NoPeer

NextClients ==
    \/ Call_version
    \/ Call_business_objects
    \/ Call_get_bo_meta_id
    \/ Call_reconnect
    \/ Peer_version
    \/ Peer_business_objects
    \/ Peer_get_bo_meta_id
    \/ Peer_reconnect

SpecClients == InitClients /\ [][NextClients]_vars

(***************************************************************************)
(* The life cycle of an instance of the customer business object.          *)
(***************************************************************************)
\* BusinessObject.get (can_insert is always True): a new object for the
\* instance, nothing is requested.  The caller holds one instance; the
\* _dependency_metas entry of the one let go of can never be read again.
get(x, bo, bo_id) ==
    { Ret([x EXCEPT !.inst = BusinessObjectInstance(bo, bo_id),
                    !.cache["_dependency_metas"] = {}], PyNone) }

\* BusinessObject.create
create(x, bo) == get(x, bo, 0)

\* dict with one more entry
With(d, k, v) == [j \in DOMAIN d \cup {k} |-> IF j = k THEN v ELSE d[j]]

\* The parameters list() starts with (search, sort and where left at None).
ListParameters(offset, limit) ==
    LET none == [t |-> "parameters"]
        chunked == IF limit # 0 THEN With(none, "chunksize", limit) ELSE none
    IN IF offset # 0 \/ limit # 0 THEN With(chunked, "offset", offset)
       ELSE chunked

\* The while loop of list (src/nuclos.py:625-633): a request for the page at
\* the current offset, its instances appended to the result, and the offset
\* moved on by limit + 1 for the next one.
RECURSIVE ListPages(_, _, _, _, _, _)
ListPages(x, bo, parameters, limit, fetch_all, result) ==
    Bind(request(x, Rq(Path(BO_INSTANCE_LIST_ROUTE, <<PyStr(bo.bo_meta_id)>>),
                       parameters, PyNone, "None", TRUE, TRUE, PyNone)),
         LAMBDA o :
            IF o.val = PyNone THEN { Raise(o.x, "TypeError", 0) }
            ELSE LET extended ==
                        result \o [i \in DOMAIN o.val.bos |->
                                     BusinessObjectInstance(bo, o.val.bos[i].boId.n)]
                 IN IF ~fetch_all \/ o.val.all
                    THEN { Ret(o.x, [t |-> "list", items |-> extended]) }
                    ELSE ListPages(o.x, bo,
                                   With(parameters, "offset",
                                        parameters.offset + limit + 1),
                                   limit, fetch_all, extended))

\* BusinessObject.list
list(x, bo, offset, limit, fetch_all) ==
    LET paged == IF fetch_all /\ limit < FetchAllChunk THEN FetchAllChunk
                 ELSE limit
    IN ListPages(x, bo, ListParameters(offset, paged), paged, fetch_all, <<>>)

\* BusinessObject.list_all
list_all(x, bo, limit) == list(x, bo, 0, limit, TRUE)

\* The writes of the caller: a new name.
LifeCycleWrites == { <<A_name, PyStr(<<"K">>)>> }
StateNumbers == {10, 99}
StateNames == { <<"A", "c", "t", "i", "v", "e">>,
                <<"i", "n", "a", "c", "t", "i", "v", "e">> }

Call_get == \E id \in 1..MaxId : \E o \in get(X, CustomerBo, id) :
                Commit(o, "get", PyInt(id))
\* The stored customer, fetched anew.
Call_get_stored == \E o \in get(X, CustomerBo, 1) : Commit(o, "get", PyInt(1))
Call_create == \E o \in create(X, CustomerBo) : Commit(o, "create", PyNone)
Call_set_attribute_by_name ==
    \E w \in LifeCycleWrites : \E o \in set_attribute_by_name(X, w[1], w[2]) :
        Commit(o, "set_attribute_by_name", [t |-> "write", name |-> PyStr(w[1]),
                                            value |-> w[2]])
Call_save == \E o \in save(X) : Commit(o, "save", PyNone)
Call_delete == \E o \in delete(X) : Commit(o, "delete", PyNone)
Call_refresh == \E o \in refresh(X) : Commit(o, "refresh", PyNone)
Call_change_to_state ==
    \E n \in StateNumbers : \E o \in change_to_state(X, n) :
        Commit(o, "change_to_state", PyInt(n))
Call_change_to_state_by_name ==
    \E n \in StateNames : \E o \in change_to_state_by_name(X, n) :
        Commit(o, "change_to_state_by_name", PyStr(n))
Call_current_state_number ==
    \E o \in current_state_number(X) : Commit(o, "current_state_number", PyNone)
Call_current_state_name ==
    \E o \in current_state_name(X) : Commit(o, "current_state_name", PyNone)

InitInstance ==
    /\ session_id = PyNone
    /\ bo_namespaces = <<>>
    /\ cache = EmptyCache
    /\ server = Server(<<"4", ".", "2", "0", ".", "1">>, ExampleCatalog, {"e401"})
    /\ inst = NoInstance
    /\ last = NoCall
    /\ peer = NoPeer

NextInstance ==
    \/ Call_get
    \/ Call_create
    \/ Call_set_attribute_by_name
    \/ Call_save
    \/ Call_delete
    \/ Call_refresh

SpecInstance == InitInstance /\ [][NextInstance]_vars

(***************************************************************************)
(* The work flow of a stored customer.                                     *)
(***************************************************************************)
InitState ==
    /\ session_id = PyNone
    /\ bo_namespaces = <<>>
    /\ cache = EmptyCache
    /\ server = Server(<<"4", ".", "2", "0", ".", "1">>, ExampleCatalog, {"garbled"})
    /\ inst = NoInstance
    /\ last = NoCall
    /\ peer = NoPeer

NextState ==
    \/ Call_get_stored
    \/ Call_set_attribute_by_name
    \/ Call_save
    \/ Call_refresh
    \/ Call_change_to_state
    \/ Call_change_to_state_by_name
    \/ Call_current_state_number
    \/ Call_current_state_name

SpecState == InitState /\ [][NextState]_vars

\* The transitions of a stored customer against a server that can answer
\* 401 and 500.
InitTransition ==
    /\ session_id = PyNone
    /\ bo_namespaces = <<>>
    /\ cache = EmptyCache
    /\ server = Server(<<"4", ".", "2", "0", ".", "1">>, ExampleCatalog,
                        {"e401", "e500"})
    /\ inst = NoInstance
    /\ last = NoCall
    /\ peer = NoPeer

NextTransition ==
    \/ Call_get_stored
    \/ Call_set_attribute_by_name
    \/ Call_refresh
    \/ Call_change_to_state
    \/ Call_change_to_state_by_name

SpecTransition == InitTransition /\ [][NextTransition]_vars

(***************************************************************************)
(* Reading and writing the attributes and members of an instance.          *)
(***************************************************************************)
OrderBo == BusinessObject(Ord, <<PyStr(Ord)>>)

\* The attribute ids a caller passes: those of the business object, and one
\* it does not have.
AttrIds(bo) ==
    { MetaData(bo.bo_meta_id).attributes[i].boAttrId :
        i \in DOMAIN MetaData(bo.bo_meta_id).attributes }
    \cup { bo.bo_meta_id \o <<"_", "x">> }

\* The attribute data with that id.
AttrOf(bo, id) ==
    LET as == MetaData(bo.bo_meta_id).attributes
    IN as[CHOOSE i \in DOMAIN as : as[i].boAttrId = id]

\* The values a caller writes: None, the path of a file, a number, and the
\* stored customer as an instance, with its data loaded and as get() returns
\* it.
Values(srv) ==
    { PyNone, PyStr(<<"d", "/", "f">>), PyInt(5),
      [BusinessObjectInstance(CustomerBo, 1) EXCEPT !.data = BoData(srv, 1)],
      BusinessObjectInstance(CustomerBo, 1) }

\* A document attribute is written with None or with a path: open() of a
\* number would read a file descriptor.
AttrWrites(bo, srv) ==
    { w \in AttrIds(bo) \X Values(srv) :
        ~(w[1] = Cust \o <<"_">> \o Lower(A_photo) /\ w[2].t = "int") }

\* The names a caller uses for members: an attribute, a dependency, and
\* names that match nothing.
Unmatched == { <<"n", "o", "p", "e">>, <<"n", "o", "_", "p", "e">> }
MemberNames == { <<"N", "A", "M", "E">>, <<"o", "r", "d", "e", "r", "_", "i", "t", "e", "m">> }
               \cup Unmatched
MemberValues == { PyStr(<<"K">>), PyInt(5) }

Call_create_order == \E o \in create(X, OrderBo) : Commit(o, "create", PyNone)
Call_set_attribute ==
    \E w \in AttrWrites(inst.bo, server) : \E o \in set_attribute(X, w[1], w[2]) :
        /\ Cardinality(DOMAIN o.x.inst.updated) <= MaxPending
        /\ Commit(o, "set_attribute", [t |-> "write", id |-> PyStr(w[1]),
                                        value |-> w[2]])
Call_get_attribute ==
    \E id \in AttrIds(inst.bo) : \E o \in get_attribute(X, id) :
        Commit(o, "get_attribute", PyStr(id))
Call_getitem ==
    \E n \in MemberNames : \E o \in getitem(X, n) :
        Commit(o, "getitem", [t |-> "member", name |-> PyStr(n)])
Call_setitem ==
    \E n \in MemberNames : \E v \in MemberValues :
        \E o \in set_attribute_by_name(X, n, v) :
            /\ Cardinality(DOMAIN o.x.inst.updated) <= MaxPending
            /\ Commit(o, "setitem", [t |-> "member", name |-> PyStr(n)])
Call_get_business_object_by_name ==
    \E n \in LookupNames \cup Unmatched :
        \E o \in get_business_object_by_name(X, n) :
            Commit(o, "get_business_object_by_name", PyStr(n))

InitAttr ==
    /\ session_id = PyNone
    /\ bo_namespaces = <<>>
    /\ cache = EmptyCache
    /\ server = Server(<<"4", ".", "2", "0", ".", "1">>, ExampleCatalog, {})
    /\ inst = NoInstance
    /\ last = NoCall
    /\ peer = NoPeer

NextAttr ==
    \/ Call_get_stored
    \/ Call_create
    \/ Call_create_order
    \/ Call_set_attribute
    \/ Call_get_attribute

SpecAttr == InitAttr /\ [][NextAttr]_vars

\* Writing attributes only: what set_attribute does on its own.
NextWrite ==
    \/ Call_get_stored
    \/ Call_create_order
    \/ Call_business_objects
    \/ Call_set_attribute

SpecWrite == InitAttr /\ [][NextWrite]_vars

\* Members by name, and business objects by name.
InitMember == InitAttr

NextMember ==
    \/ Call_get_stored
    \/ Call_create
    \/ Call_getitem
    \/ Call_setitem
    \/ Call_get_business_object_by_name

SpecMember == InitMember /\ [][NextMember]_vars

(***************************************************************************)
(* Name resolution, for the display names and the lookup names made of a   *)
(* lower case letter, an upper case letter, the space and the underscore,  *)
(* that begin and end with a letter.                                       *)
(***************************************************************************)
NameAlphabet == {"a", "B", " ", "_"}
Names == { n \in [1..MaxNameLen -> NameAlphabet] :
             n[1] \in {"a", "B"} /\ n[MaxNameLen] \in {"a", "B"} }

\* The catalog of a server with a business object of that display name.
NamedCatalog(name) ==
    << ExampleCatalog[1], BoEntry(name, <<"x">>) >>

Call_resolve ==
    /\ Cardinality(cache["_get_bo_meta_id"]) < MaxCached
    /\ \E n \in Names : \E o \in get_bo_meta_id(X, n) :
            Commit(o, "_get_bo_meta_id", PyStr(n))

InitNames ==
    /\ session_id = PyNone
    /\ bo_namespaces = <<>>
    /\ cache = EmptyCache
    /\ server \in { Server(<<"4", ".", "2", "0", ".", "1">>, NamedCatalog(n), {})
                      : n \in Names }
    /\ inst = NoInstance
    /\ last = NoCall
    /\ peer = NoPeer

NextNames ==
    \/ Call_resolve
    \/ Call_reconnect

SpecNames == InitNames /\ [][NextNames]_vars

\* One lookup at a time, from an empty cache: every call the lookup makes
\* of itself leaves its entry.
SpacedCatalogs == { NamedCatalog(<<"a", " ", " ", "a">>),
                    NamedCatalog(<<"a", "_", "_", "a">>) }

Call_lookup ==
    /\ cache["_get_bo_meta_id"] = {}
    /\ \E n \in Names : \E o \in get_bo_meta_id(X, n) :
            Commit(o, "_get_bo_meta_id", PyStr(n))

InitLookup ==
    /\ session_id = PyNone
    /\ bo_namespaces = <<>>
    /\ cache = EmptyCache
    /\ server \in { Server(<<"4", ".", "2", "0", ".", "1">>, c, {})
                      : c \in SpacedCatalogs }
    /\ inst = NoInstance
    /\ last = NoCall
    /\ peer = NoPeer

NextLookup ==
    \/ Call_lookup
    \/ Call_reconnect

SpecLookup == InitLookup /\ [][NextLookup]_vars

(***************************************************************************)
(* Lookup by name with namespaces: the catalog lists one business object   *)
(* under a name nobody looks for, with an id made of a namespace and a     *)
(* name, and the customer under its display name.                          *)
(***************************************************************************)
MaxNamespaces == 2

Namespaces == { <<"a">>, <<"b">> }
GuessedNames == { <<"i", "t">>, <<"I", "t">>, <<"c", "u", "s", "t", "o", "m", "e", "r">> }
HiddenIds == { ns \o <<"_">> \o n : ns \in Namespaces,
                                     n \in { <<"i", "t">>, <<"I", "t">> } }
HiddenCatalog(id) == << ExampleCatalog[1], BoEntry(<<"Q">>, id) >>

Call_add_business_object_namespace ==
    /\ Len(bo_namespaces) < MaxNamespaces
    /\ \E ns \in Namespaces : \E o \in add_business_object_namespace(X, ns) :
            Commit(o, "add_business_object_namespace", PyStr(ns))
Call_guess ==
    \E n \in GuessedNames : \E o \in get_business_object_by_name(X, n) :
        Commit(o, "get_business_object_by_name", PyStr(n))

InitNamespace ==
    /\ session_id = PyNone
    /\ bo_namespaces = <<>>
    /\ cache = EmptyCache
    /\ server \in { Server(<<"4", ".", "2", "0", ".", "1">>, HiddenCatalog(id), {})
                       : id \in HiddenIds }
    /\ inst = NoInstance
    /\ last = NoCall
    /\ peer = NoPeer

NextNamespace ==
    \/ Call_add_business_object_namespace
    \/ Call_guess
    \/ Call_reconnect

SpecNamespace == InitNamespace /\ [][NextNamespace]_vars

(***************************************************************************)
(* Saving and deleting against a server that refuses requests: it answers  *)
(* with 403, or with 500.                                                  *)
(***************************************************************************)
InitRefused ==
    /\ session_id = PyNone
    /\ bo_namespaces = <<>>
    /\ cache = EmptyCache
    /\ server = Server(<<"4", ".", "2", "0", ".", "1">>, ExampleCatalog,
                        {"e403", "e500"})
    /\ inst = NoInstance
    /\ last = NoCall
    /\ peer = NoPeer

NextRefused ==
    \/ Call_get_stored
    \/ Call_create
    \/ Call_set_attribute_by_name
    \/ Call_save
    \/ Call_delete

SpecRefused == InitRefused /\ [][NextRefused]_vars

\* Saving a new and a stored customer against a server that can fail with
\* 500 and can answer a request with an empty body.
InitUnsaved ==
    /\ session_id = PyNone
    /\ bo_namespaces = <<>>
    /\ cache = EmptyCache
    /\ server = Server(<<"4", ".", "2", "0", ".", "1">>, ExampleCatalog,
                        {"garbled", "e500"})
    /\ inst = NoInstance
    /\ last = NoCall
    /\ peer = NoPeer

NextUnsaved ==
    \/ Call_get_stored
    \/ Call_create
    \/ Call_set_attribute_by_name
    \/ Call_save

SpecUnsaved == InitUnsaved /\ [][NextUnsaved]_vars

(***************************************************************************)
(* The calls on an instance up to and after its deletion, against a server *)
(* that can fail with 500.                                                 *)
(***************************************************************************)
Call_data == \E o \in data_(X) : Commit(o, "data", PyNone)

InitDeleted ==
    /\ session_id = PyNone
    /\ bo_namespaces = <<>>
    /\ cache = EmptyCache
    /\ server = Server(<<"4", ".", "2", "0", ".", "1">>, ExampleCatalog, {"e500"})
    /\ inst = NoInstance
    /\ last = NoCall
    /\ peer = NoPeer

NextDeleted ==
    \/ Call_get
    \/ Call_create
    \/ Call_set_attribute_by_name
    \/ Call_save
    \/ Call_delete
    \/ Call_refresh
    \/ Call_data

SpecDeleted == InitDeleted /\ [][NextDeleted]_vars

\* The data of the stored customer, read again and again between edits,
\* saves and refreshes, on a server that can answer 401.
InitData ==
    /\ session_id = PyNone
    /\ bo_namespaces = <<>>
    /\ cache = EmptyCache
    /\ server = Server(<<"4", ".", "2", "0", ".", "1">>, ExampleCatalog, {"e401"})
    /\ inst = NoInstance
    /\ last = NoCall
    /\ peer = NoPeer

NextData ==
    \/ Call_get_stored
    \/ Call_set_attribute_by_name
    \/ Call_save
    \/ Call_delete
    \/ Call_refresh
    \/ Call_data

SpecData == InitData /\ [][NextData]_vars

\* Every call that works on an instance, new or stored, against a server
\* that can fail with 500.
InitIdentity ==
    /\ session_id = PyNone
    /\ bo_namespaces = <<>>
    /\ cache = EmptyCache
    /\ server = Server(<<"4", ".", "2", "0", ".", "1">>, ExampleCatalog, {"e500"})
    /\ inst = NoInstance
    /\ last = NoCall
    /\ peer = NoPeer

NextIdentity ==
    \/ Call_get_stored
    \/ Call_create
    \/ Call_set_attribute_by_name
    \/ Call_save
    \/ Call_refresh
    \/ Call_change_to_state
    \/ Call_delete

SpecIdentity == InitIdentity /\ [][NextIdentity]_vars

\* The dependencies of the stored customer, read between refreshes and
\* reconnects while the server takes the orders out of the subBos of its
\* customers and puts them back.
Call_dependency_metas ==
    \E o \in dependency_metas(X) : Commit(o, "_dependency_metas", PyNone)

Server_subBos ==
    \E deps \in {<<>>, << DepOrders >>} :
        /\ deps # server.subBos
        /\ Commit(Ret([X EXCEPT !.srv.subBos = deps], PyNone), "server", PyNone)

InitDependency ==
    /\ session_id = PyNone
    /\ bo_namespaces = <<>>
    /\ cache = EmptyCache
    /\ server = Server(<<"4", ".", "2", "0", ".", "1">>, ExampleCatalog, {})
    /\ inst = NoInstance
    /\ last = NoCall
    /\ peer = NoPeer

NextDependency ==
    \/ Call_get_stored
    \/ Call_data
    \/ Call_dependency_metas
    \/ Call_refresh
    \/ Call_reconnect
    \/ Call_business_objects
    \/ Server_subBos

SpecDependency == InitDependency /\ [][NextDependency]_vars

(***************************************************************************)
(* Edits of the name of a customer, saved or discarded by refresh().       *)
(***************************************************************************)
Call_get_attribute_by_name ==
    \E w \in LifeCycleWrites : \E o \in get_attribute_by_name(X, w[1]) :
        Commit(o, "get_attribute_by_name", PyStr(w[1]))

InitRefresh ==
    /\ session_id = PyNone
    /\ bo_namespaces = <<>>
    /\ cache = EmptyCache
    /\ server = Server(<<"4", ".", "2", "0", ".", "1">>, ExampleCatalog, {"garbled"})
    /\ inst = NoInstance
    /\ last = NoCall
    /\ peer = NoPeer

NextRefresh ==
    \/ Call_get_stored
    \/ Call_create
    \/ Call_set_attribute_by_name
    \/ Call_get_attribute_by_name
    \/ Call_save
    \/ Call_delete
    \/ Call_refresh

SpecRefresh == InitRefresh /\ [][NextRefresh]_vars

(***************************************************************************)
(* require_version, for the versions a server reports and the versions a   *)
(* caller requires.                                                        *)
(***************************************************************************)
\* The numbers a version is made of.
VersionNumbers == {0, 4, 5, 7, 20}

\* "a.b" and "a.b.1"
RECURSIVE VersionText(_)
VersionText(parts) ==
    IF Len(parts) = 1 THEN IntToStr(parts[1])
    ELSE IntToStr(parts[1]) \o <<".">> \o VersionText(Tail(parts))

ReportedVersions ==
    { VersionText(<<a, b>>) : a \in VersionNumbers, b \in VersionNumbers }
    \cup { VersionText(<<a, b, 1>>) : a \in VersionNumbers, b \in VersionNumbers }

RequiredVersions ==
    { <<a>> : a \in VersionNumbers }
    \cup { <<a, b>> : a \in VersionNumbers, b \in VersionNumbers }
    \cup { <<a, b, 1>> : a \in VersionNumbers, b \in VersionNumbers }

Call_require_version ==
    \E req \in RequiredVersions : \E o \in require_version(X, req) :
        Commit(o, "require_version", [t |-> "version", parts |-> req])

InitVersion ==
    /\ session_id = PyNone
    /\ bo_namespaces = <<>>
    /\ cache = EmptyCache
    /\ server \in { Server(v, ExampleCatalog, {}) : v \in ReportedVersions }
    /\ inst = NoInstance
    /\ last = NoCall
    /\ peer = NoPeer

NextVersion ==
    \/ Call_require_version
    \/ Call_version

SpecVersion == InitVersion /\ [][NextVersion]_vars

(***************************************************************************)
(* Listing the orders the server holds.                                    *)
(***************************************************************************)
\* The limit and offset parameters a caller passes.
ListLimits == {0, 50, 100, 101}
ListOffsets == {0, 1, 60}

Listing(offset, limit) == [t |-> "listing", offset |-> offset, limit |-> limit]

Call_list_all ==
    \E limit \in ListLimits : \E o \in list_all(X, OrderBo, limit) :
        Commit(o, "list_all", Listing(0, limit))
Call_list ==
    \E offset \in ListOffsets : \E limit \in ListLimits :
        \E o \in list(X, OrderBo, offset, limit, FALSE) :
            Commit(o, "list", Listing(offset, limit))

InitList ==
    /\ session_id = PyNone
    /\ bo_namespaces = <<>>
    /\ cache = EmptyCache
    /\ server \in { [Server(<<"4", ".", "2", "0", ".", "1">>, ExampleCatalog, {})
                        EXCEPT !.orders = n] : n \in 0..MaxOrders }
    /\ inst = NoInstance
    /\ last = NoCall
    /\ peer = NoPeer

NextList ==
    \/ Call_list_all
    \/ Call_list

SpecList == InitList /\ [][NextList]_vars

(***************************************************************************)
(* Reading the log of a call.                                              *)
(***************************************************************************)
\* The entries of the log that are sends of the request rq itself (and not of
\* a request that login() makes on its behalf).
Attempts(log, rq) ==
    { i \in DOMAIN log : /\ log[i].ev = "http"
                         /\ log[i].path = rq.path
                         /\ log[i].verb = Verb(rq) }
Earliest(S) == CHOOSE i \in S : \A j \in S : i <= j
Latest(S) == CHOOSE i \in S : \A j \in S : j <= i
LoginsAfter(log, i) ==
    Cardinality({ j \in DOMAIN log : j > i /\ log[j].ev = "login" })
\* login() called after entry i went through: its credentials were posted
\* and answered with a session.
LoggedInAfter(log, i) ==
    \E j \in DOMAIN log : /\ j > i
                          /\ log[j].ev = "http"
                          /\ log[j].path.route = LOGIN_ROUTE
                          /\ log[j].verb = "POST"
                          /\ log[j].answer = "ok"

\* The last call was request(..., auto_login=True) and its first send was
\* answered with 401.
First401 ==
    /\ last.op = "request"
    /\ last.arg.auto_login
    /\ Attempts(last.log, last.arg) # {}
    /\ last.log[Earliest(Attempts(last.log, last.arg))].status = 401

(***************************************************************************)
(* C1 (as amended).  When the first send of request(auto_login=True) is    *)
(* answered with 401, login() is called exactly once more; the request is  *)
(* sent exactly once more, with auto_login=False, when that login          *)
(* succeeds, and not again when it fails; it is never sent a third time.   *)
(***************************************************************************)
C1_RetryOnce ==
    First401 =>
        LET A == Attempts(last.log, last.arg)
            first == Earliest(A)
        IN /\ LoginsAfter(last.log, first) = 1
           /\ Cardinality(A) = IF LoggedInAfter(last.log, first) THEN 2 ELSE 1
           /\ \A i \in A \ {first} : ~last.log[i].auto_login

\* C1 as stated: after a first 401 the request is always sent exactly one
\* more time.
C1_AsStated ==
    First401 =>
        /\ LoginsAfter(last.log, Earliest(Attempts(last.log, last.arg))) = 1
        /\ Cardinality(Attempts(last.log, last.arg)) = 2

\* Both the first send and the retry were answered with 401.
C1_Witness ==
    /\ First401
    /\ Cardinality(Attempts(last.log, last.arg)) = 2
    /\ last.log[Latest(Attempts(last.log, last.arg))].status = 401

(***************************************************************************)
(* C2.  When the retry after a 401 is answered with 401 as well, request() *)
(* raises NuclosAuthenticationException.                                   *)
(***************************************************************************)
C2_SecondUnauthorized ==
    C1_Witness => last.exc = "NuclosAuthenticationException"

(***************************************************************************)
(* C3.  When reconnect() returns, session_id is None and no Cached object  *)
(* holds a result; the cached read called next (version, the list of       *)
(* business objects, a name resolution, an existence check, the meta data) *)
(* sends a request again.                                                  *)
(***************************************************************************)
CachedReads == {"version", "_business_objects", "_get_bo_meta_id",
                "_bo_meta_id_exists", "_data"}

Reconnected == last.op = "reconnect" /\ last.exc = ""

C3_Reconnect ==
    [][/\ Reconnected' => /\ session_id' = PyNone
                          /\ \A f \in CachedNames : cache'[f] = {}
       /\ (Reconnected /\ last'.op \in CachedReads) => HitsTransport(last'.log)
      ]_vars

\* reconnect() returned after logging an active session out, and the meta
\* data were read next.
C3_Witness ==
    /\ last.prev.op = "reconnect"
    /\ last.prev.exc = ""
    /\ last.prev.http
    /\ last.op = "_data"
    /\ HitsTransport(last.log)

(***************************************************************************)
(* C4 (as amended).  When save() on an instance with pending writes        *)
(* returns success, the server has accepted exactly one write request of   *)
(* that call (the write is on the wire once, or twice when its first send  *)
(* was answered with 401 and it was sent again after the new login), and a *)
(* save() called next sends nothing and returns success.  When save()      *)
(* returns failure the pending writes are kept, and a save() called next   *)
(* sends requests again.                                                   *)
(***************************************************************************)
\* The sends of a call that write an instance: the POST of an insert and the
\* PUT of an update.
Writes(log) ==
    { i \in DOMAIN log : /\ log[i].ev = "http"
                          /\ log[i].path.route \in {BO_INSTANCE_LIST_ROUTE,
                                                    BO_INSTANCE_ROUTE}
                          /\ log[i].verb \in {"POST", "PUT"} }
Accepted(log) == { i \in Writes(log) : log[i].answer \in {"ok", "garbled"} }

\* save() was called on an instance that is not deleted and has pending
\* writes: only then does save() log anything.
SavedPending == last.op = "save" /\ last.log # <<>>

C4_SaveOnce ==
    [][/\ (SavedPending /\ last.val = PyBool(TRUE) /\ last'.op = "save") =>
            /\ Cardinality(Accepted(last.log)) = 1
            /\ Cardinality(Writes(last.log)) \in {1, 2}
            /\ Cardinality(Writes(last.log)) = 2 =>
                    last.log[Earliest(Writes(last.log))].status = 401
            /\ last'.log = <<>>
            /\ last'.exc = ""
            /\ last'.val = PyBool(TRUE)
       /\ (SavedPending /\ last.val = PyBool(FALSE) /\ last'.op = "save") =>
            /\ DOMAIN inst.updated # {}
            /\ last'.log # <<>>
      ]_vars

\* C4 as stated: of two saves in a row on an instance with pending writes,
\* the first sends the one write request and the second sends nothing and
\* returns success.
C4_AsStated ==
    [][(SavedPending /\ last'.op = "save") =>
            /\ Cardinality(Writes(last.log)) + Cardinality(Writes(last'.log)) = 1
            /\ Cardinality(Writes(last.log)) = 1
            /\ last'.log = <<>>
            /\ last'.exc = ""
            /\ last'.val = PyBool(TRUE)
      ]_vars

\* A save that sent its write and returned True, and then a save that sent
\* nothing and returned True.
C4_Witness ==
    /\ last.op = "save"
    /\ last.prev.op = "save"
    /\ last.prev.http
    /\ last.prev.yes
    /\ last.log = <<>>
    /\ last.val = PyBool(TRUE)

(***************************************************************************)
(* C5.  delete() on an instance that is deleted already returns True and   *)
(* sends no request; delete() on a new instance (never saved) raises       *)
(* NuclosException and sends no request.                                   *)
(***************************************************************************)
C5_DeleteIdempotent ==
    [][last'.op = "delete" =>
          /\ inst.deleted =>
                /\ last'.exc = ""
                /\ last'.val = PyBool(TRUE)
                /\ last'.log = <<>>
                /\ inst' = inst
          /\ (~inst.deleted /\ inst.bo_id = 0) =>
                /\ last'.exc = "NuclosException"
                /\ last'.log = <<>>
                /\ inst' = inst
      ]_vars

\* A delete that sent its request and returned True, and then a delete that
\* sent nothing and returned True.
C5_Witness ==
    /\ last.op = "delete"
    /\ last.prev.op = "delete"
    /\ last.prev.http
    /\ last.prev.yes
    /\ last.log = <<>>
    /\ last.val = PyBool(TRUE)
    /\ inst.deleted

(***************************************************************************)
(* Transitions and reads of the state of an instance.                      *)
(***************************************************************************)
Transitions == {"change_to_state", "change_to_state_by_name"}
StateReads == {"current_state_number", "current_state_name"}

\* The state a transition call asks for.
Target(op, arg) ==
    IF op = "change_to_state" THEN arg.n
    ELSE IF Lower(arg.s) = Lower(S_Active) THEN 10 ELSE 99

\* What a read of the state returns when the instance is in state n.
ReadAs(op, n) == IF op = "current_state_number" THEN PyInt(n)
                 ELSE PyStr(StateName(n))

\* A transition call returned.
Moved == last.op \in Transitions /\ last.exc = ""

(***************************************************************************)
(* C9.  When change_to_state or change_to_state_by_name returns, the       *)
(* server holds the instance in the target state; no other call (save()    *)
(* included) changes the state the server holds; and every read of         *)
(* current_state_number or current_state_name that returns, on the         *)
(* instance itself or on one fetched anew with the same id, returns the    *)
(* state the server holds.  So the target state is read immediately after  *)
(* the transition, and after save() from a freshly fetched instance.       *)
(***************************************************************************)
C9_StateVisible ==
    /\ [](last.op \in StateReads /\ last.exc = "" =>
            last.val = ReadAs(last.op, server.bos[inst.bo_id].state))
    /\ [][(Moved' => server'.bos[inst.bo_id].state
                            = Target(last'.op, last'.arg))
           /\ (~Moved' => \A id \in 1..MaxId :
                            server'.bos[id].state = server.bos[id].state)
          ]_vars

\* The state 99 "Inactive", which only a transition leads to, is read from
\* an instance that was fetched anew.
C9_Witness ==
    /\ last.op = "current_state_name"
    /\ last.exc = ""
    /\ last.val = PyStr(S_Inactive)
    /\ last.prev.op = "get"
    /\ HitsTransport(last.log)

(***************************************************************************)
(* C10.  When a transition call returns, the instance has been refreshed:  *)
(* no write is pending and no data are loaded.  A save() called next sends *)
(* nothing, and a read of the state called next fetches the instance from  *)
(* the server.                                                             *)
(***************************************************************************)
\* The call fetched the instance i with a GET.
Fetched(log, i) ==
    \E k \in DOMAIN log : /\ log[k].ev = "http"
                           /\ log[k].path = Url(i)
                           /\ log[k].verb = "GET"

C10_TransitionRefreshes ==
    [][/\ Moved' => /\ DOMAIN inst'.updated = {}
                    /\ inst'.data = PyNone
       /\ (Moved /\ last'.op = "save") => /\ last'.log = <<>>
                                          /\ last'.val = PyBool(TRUE)
       /\ (Moved /\ last'.op \in StateReads) => Fetched(last'.log, inst)
      ]_vars

\* A transition returned on an instance that had a write pending, made by
\* the call before.
C10_Witness ==
    /\ Moved
    /\ last.prev.op = "set_attribute_by_name"
    /\ last.prev.exc = ""
    /\ DOMAIN inst.updated = {}

(***************************************************************************)
(* C6 (as amended).  set_attribute(id, v) that returns, followed at once   *)
(* by get_attribute(id), returns: v itself for None and for a value of an  *)
(* attribute that is no document, no reference and not of type String;     *)
(* str(v) for an attribute of type String when v is not a str; the base    *)
(* name of the path v for a document attribute; and for a reference        *)
(* attribute a new instance, without loaded data, of the business object   *)
(* and with the id of the instance v.                                      *)
(***************************************************************************)
\* get_attribute(id) is called right after set_attribute(id, v) returned.
RoundTrip ==
    /\ last.op = "set_attribute"
    /\ last.exc = ""
    /\ last'.op = "get_attribute"
    /\ last'.arg = last.arg.id

\* r is what is read back for the value v written to the attribute.
ReadsBack(attr, v, r) ==
    IF v = PyNone THEN r = PyNone
    ELSE IF Lower(attr.type) = Lower(T_Document) THEN r = PyStr(Basename(v.s))
    ELSE IF attr.reference THEN r = BusinessObjectInstance(v.bo, v.bo_id)
    ELSE IF attr.type = T_String /\ v.t # "str"
    THEN /\ r.t = "str"
         /\ v.t = "int" => r = PyStr(IntToStr(v.n))
    ELSE r = v

C6_RoundTrip ==
    [][RoundTrip => /\ last'.exc = ""
                    /\ ReadsBack(AttrOf(inst.bo, last.arg.id.s), last.arg.value,
                                 last'.val)
      ]_vars

\* C6 as stated: get_attribute returns the value that was set, unchanged.
C6_AsStated ==
    [][RoundTrip => /\ last'.exc = ""
                    /\ last'.val = last.arg.value
      ]_vars

\* The number 5 was written to an attribute of type String and read back
\* as "5".
C6_Witness ==
    /\ last.op = "get_attribute"
    /\ last.exc = ""
    /\ last.prev.op = "set_attribute"
    /\ last.prev.exc = ""
    /\ last.val = PyStr(<<"5">>)
    /\ DOMAIN inst.updated # {}

(***************************************************************************)
(* C7.  A lookup name that differs from the display name of a business     *)
(* object of the catalog only in the case of its letters and in spaces     *)
(* written as underscores or underscores written as spaces resolves to     *)
(* the id of that business object.                                         *)
(***************************************************************************)
\* A character with its case and the difference of space and underscore
\* taken away.
Fold(c) == IF c = "_" THEN " " ELSE LowerChar(c)

Variant(a, b) == Len(a) = Len(b) /\ \A k \in DOMAIN a : Fold(a[k]) = Fold(b[k])

C7_SameIdentifier ==
    (last.op = "_get_bo_meta_id" /\ last.exc = "") =>
        \A i \in DOMAIN server.catalog :
            Variant(last.arg.s, server.catalog[i].name) =>
                last.val = PyStr(server.catalog[i].boMetaId)

(***************************************************************************)
(* C8.  For a name that matches nothing, get_business_object_by_name       *)
(* returns None, and reading (instance[name]) or writing                   *)
(* (instance[name] = v) the member of that name raises AttributeError and  *)
(* leaves the pending writes as they were.                                 *)
(***************************************************************************)
C8_Unmatched ==
    [][/\ (last'.op = "get_business_object_by_name" /\ last'.arg.s \in Unmatched)
            => /\ last'.exc = ""
               /\ last'.val = PyNone
       /\ (last'.op \in {"getitem", "setitem"} /\ last'.arg.name.s \in Unmatched)
            => /\ last'.exc = "AttributeError"
               /\ inst'.updated = inst.updated
      ]_vars

(***************************************************************************)
(* C11.  list_all returns every instance the server holds of the business  *)
(* object exactly once, in the order of the server, whatever their number  *)
(* and the limit given.                                                    *)
(***************************************************************************)
C11_ListAllComplete ==
    (last.op = "list_all" /\ last.exc = "") =>
        last.val.items = [i \in 1..server.orders |->
                            BusinessObjectInstance(OrderBo, i)]

(***************************************************************************)
(* C12 (as amended).  When save() of a new instance with pending writes    *)
(* returns True, every insert request it sent is a POST to the list of the *)
(* business object that carries the insert flag, the id of the business    *)
(* object and the pending writes; exactly one of them was accepted (one is *)
(* sent, or two when the first was answered with 401 and it was sent again *)
(* after the new login).  Afterwards the id of the instance is the one the *)
(* server assigned, its data are the answer of the server, and no write is *)
(* pending.                                                                *)
(***************************************************************************)
\* The sends of a call that insert an instance.
Inserts(log) ==
    { i \in DOMAIN log : /\ log[i].ev = "http"
                          /\ log[i].path.route = BO_INSTANCE_LIST_ROUTE
                          /\ log[i].verb = "POST" }

\* save() of a new instance with pending writes returns True in this step.
InsertSaved ==
    /\ inst.bo_id = 0
    /\ DOMAIN inst.updated # {}
    /\ last'.op = "save"
    /\ last'.exc = ""
    /\ last'.val = PyBool(TRUE)

\* What an insert request of the instance carries.
InsertData(i) ==
    [t |-> "update_data", boMetaId |-> i.bo.bo_meta_id, attributes |-> i.updated,
     flag |-> "insert", boId |-> PyNone, version |-> PyNone]

\* The instance after the insert: the id the server assigned, the answer of
\* the server as its data, nothing pending.
Inserted ==
    /\ inst'.bo_id = server.next_id
    /\ server'.bos[inst'.bo_id].exists
    /\ server'.bos[inst'.bo_id].attributes = inst.updated
    /\ inst'.data = BoData(server', inst'.bo_id)
    /\ DOMAIN inst'.updated = {}
    /\ ~inst'.deleted

C12_InsertOnSave ==
    [][InsertSaved =>
          /\ \A i \in Inserts(last'.log) :
                /\ last'.log[i].path.args = <<PyStr(inst.bo.bo_meta_id)>>
                /\ last'.log[i].data = InsertData(inst)
          /\ Cardinality(Accepted(last'.log)) = 1
          /\ Cardinality(Inserts(last'.log)) \in {1, 2}
          /\ Cardinality(Inserts(last'.log)) = 2 =>
                last'.log[Earliest(Inserts(last'.log))].status = 401
          /\ Inserted
      ]_vars

\* C12 as stated: a successful save() of a new instance sends one insert
\* request.
C12_AsStated ==
    [][InsertSaved =>
          /\ Cardinality(Inserts(last'.log)) = 1
          /\ \A i \in Inserts(last'.log) : last'.log[i].data = InsertData(inst)
          /\ Inserted
      ]_vars

\* save() of a new instance returned True after one insert request: the
\* instance has the id the server assigned and the data it answered.
C12_Witness ==
    /\ last.op = "save"
    /\ last.val = PyBool(TRUE)
    /\ Cardinality(Inserts(last.log)) = 1
    /\ last.log[Earliest(Inserts(last.log))].data.flag = "insert"
    /\ inst.bo_id = 2
    /\ inst.data = BoData(server, 2)
    /\ DOMAIN inst.updated = {}

(***************************************************************************)
(* C13.  When the request that save() sends to write the instance, or the  *)
(* request that delete() sends to delete it, is answered with an error     *)
(* status, the call returns False and raises nothing.                      *)
(***************************************************************************)
\* The sends of a call that delete an instance.
Deletes(log) ==
    { i \in DOMAIN log : /\ log[i].ev = "http"
                          /\ log[i].path.route = BO_INSTANCE_ROUTE
                          /\ log[i].verb = "DELETE" }

\* The last call was save() or delete(), and the last send of its write or
\* delete request was answered with an error status.
RequestFailed ==
    \/ /\ last.op = "save"
       /\ Writes(last.log) # {}
       /\ last.log[Latest(Writes(last.log))].status >= 400
    \/ /\ last.op = "delete"
       /\ Deletes(last.log) # {}
       /\ last.log[Latest(Deletes(last.log))].status >= 400

C13_FailureIsFalse ==
    RequestFailed => last.exc = "" /\ last.val = PyBool(FALSE)

(***************************************************************************)
(* C14.  Once delete() has returned True the instance is deleted, and no   *)
(* call on it makes it non-deleted again: reading its data, refresh() and  *)
(* save() (with or without pending writes) raise NuclosException and send  *)
(* nothing, and delete() returns True and sends nothing.                   *)
(***************************************************************************)
\* The calls that give the caller another instance to hold.
Getters == {"get", "create"}

C14_DeletedIsTerminal ==
    [][/\ (last'.op = "delete" /\ last'.exc = "" /\ last'.val = PyBool(TRUE))
            => inst'.deleted
       /\ (inst.deleted /\ last'.op \notin Getters) =>
            /\ inst'.deleted
            /\ last'.op \in {"data", "refresh", "save"} =>
                    last'.exc = "NuclosException" /\ last'.log = <<>>
            /\ last'.op = "delete" =>
                    last'.exc = "" /\ last'.val = PyBool(TRUE) /\ last'.log = <<>>
      ]_vars

\* delete() sent its request and returned True, and the save() called next
\* on the instance, which has no pending writes, raised NuclosException.
C14_Witness ==
    /\ inst.deleted
    /\ last.prev.op = "delete"
    /\ last.prev.http
    /\ last.prev.yes
    /\ last.op = "save"
    /\ last.exc = "NuclosException"
    /\ DOMAIN inst.updated = {}

(***************************************************************************)
(* C15.  refresh() on an instance that is not deleted sends nothing and    *)
(* leaves it with no pending write and no loaded data; the read of an      *)
(* attribute called next on a stored instance, when it returns, has        *)
(* fetched the instance from the server and returns the value the server   *)
(* holds.                                                                  *)
(* refresh() on a deleted instance raises NuclosException and changes      *)
(* nothing.                                                                *)
(***************************************************************************)
C15_RefreshDiscards ==
    [][/\ (last'.op = "refresh" /\ ~inst.deleted) =>
            /\ last'.exc = ""
            /\ last'.log = <<>>
            /\ DOMAIN inst'.updated = {}
            /\ inst'.data = PyNone
            /\ inst'.bo_id = inst.bo_id
       /\ (last'.op = "refresh" /\ inst.deleted) =>
            /\ last'.exc = "NuclosException"
            /\ <<session_id, bo_namespaces, cache, server, inst>>'
                    = <<session_id, bo_namespaces, cache, server, inst>>
       /\ (/\ last.op = "refresh"
           /\ last.exc = ""
           /\ inst.bo_id # 0
           /\ last'.op = "get_attribute_by_name"
           /\ last'.exc = "") =>
            /\ Fetched(last'.log, inst)
            /\ last'.val = server.bos[inst.bo_id].attributes[Lower(last'.arg.s)]
      ]_vars

\* After refresh() the name was fetched and read as the server holds it.
C15_Witness ==
    /\ last.prev.op = "refresh"
    /\ last.prev.exc = ""
    /\ last.op = "get_attribute_by_name"
    /\ last.exc = ""
    /\ Fetched(last.log, inst)
    /\ last.val = server.bos[inst.bo_id].attributes[Lower(A_name)]

(***************************************************************************)
(* C16.  request(auto_login=True) of a client that holds no session calls  *)
(* login() before it sends anything, and when it returns the client holds  *)
(* a session; request(auto_login=False) never calls login().               *)
(***************************************************************************)
Logins(log) == { i \in DOMAIN log : log[i].ev = "login" }

C16_AutoLogin ==
    [][last'.op = "request" =>
          /\ (last'.arg.auto_login /\ ~Truthy(session_id)) =>
                /\ last'.log # <<>>
                /\ last'.log[1] = LoginEvent
                /\ last'.exc = "" => /\ Truthy(session_id')
                                     /\ Attempts(last'.log, last'.arg) # {}
          /\ ~last'.arg.auto_login =>
                /\ Logins(last'.log) = {}
                /\ session_id' = session_id
      ]_vars

\* request(auto_login=True) logged in first, sent the request and returned;
\* the client holds the session of that login.
C16_Witness ==
    /\ last.op = "request"
    /\ last.arg.auto_login
    /\ last.exc = ""
    /\ last.log[1] = LoginEvent
    /\ Cardinality(Logins(last.log)) = 1
    /\ Attempts(last.log, last.arg) # {}
    /\ Truthy(session_id)

(***************************************************************************)
(* C17.  logout() of a client that holds no session returns True, sends    *)
(* nothing and leaves session_id as it is; logout() of a client that holds *)
(* a session sends the logout request and, when that request is answered   *)
(* with success, returns True with session_id None.                        *)
(***************************************************************************)
\* The sends of a call that log out.
Logouts(log) ==
    { i \in DOMAIN log : /\ log[i].ev = "http"
                          /\ log[i].path.route = LOGOUT_ROUTE
                          /\ log[i].verb = "DELETE" }

C17_Logout ==
    [][last'.op = "logout" =>
          /\ ~Truthy(session_id) =>
                /\ last'.exc = ""
                /\ last'.val = PyBool(TRUE)
                /\ last'.log = <<>>
                /\ session_id' = PyNone
          /\ Truthy(session_id) =>
                /\ Logouts(last'.log) # {}
                /\ last'.log[Earliest(Logouts(last'.log))].cookie = session_id
                /\ last'.log[Latest(Logouts(last'.log))].status = 200 =>
                        /\ last'.exc = ""
                        /\ last'.val = PyBool(TRUE)
                        /\ session_id' = PyNone
      ]_vars

\* logout() sent the logout request with the session of the client and
\* returned True; the client holds no session.
C17_Witness ==
    /\ last.op = "logout"
    /\ last.exc = ""
    /\ last.val = PyBool(TRUE)
    /\ Cardinality(Logouts(last.log)) = 1
    /\ Truthy(last.log[Earliest(Logouts(last.log))].cookie)
    /\ session_id = PyNone

(***************************************************************************)
(* C18.  require_version returns True exactly when the version of the      *)
(* server is at least the required one, the versions compared number by    *)
(* number with the first number most significant.                          *)
(***************************************************************************)
\* The i-th number of a version, 0 when it has fewer numbers.
Part(v, i) == IF i <= Len(v) THEN v[i] ELSE 0

\* v is at least w: equal, or greater at the first number where they differ.
AtLeast(v, w) ==
    LET n == IF Len(v) < Len(w) THEN Len(w) ELSE Len(v)
        differ == { i \in 1..n : Part(v, i) # Part(w, i) }
    IN differ = {} \/ Part(v, Earliest(differ)) > Part(w, Earliest(differ))

C18_VersionAtLeast ==
    (last.op = "require_version" /\ last.exc = "") =>
        last.val = PyBool(AtLeast(VersionParts(server.version), last.arg.parts))

(***************************************************************************)
(* C19.  login() raises NuclosVersionException exactly when the version of *)
(* the server is below 4.7, and then it has not posted the credentials;    *)
(* for a version that is at least 4.7 (and that the client got to know) it *)
(* posts the credentials, and when it returns the client holds a session.  *)
(***************************************************************************)
\* The sends of a call that post the credentials.
Credentials(log) ==
    { i \in DOMAIN log : /\ log[i].ev = "http"
                          /\ log[i].path.route = LOGIN_ROUTE
                          /\ log[i].verb = "POST" }

\* The version of the server is below the one login() requires.
BelowMinimum == ~AtLeast(VersionParts(server.version), <<4, 7>>)

C19_VersionGate ==
    last.op = "login" =>
        /\ BelowMinimum => /\ last.exc # ""
                           /\ Credentials(last.log) = {}
        /\ last.exc = "NuclosVersionException" => BelowMinimum
        /\ (~BelowMinimum /\ cache["version"] # {}) => Credentials(last.log) # {}
        /\ last.exc = "" => Truthy(session_id)

(***************************************************************************)
(* C20.  When a request is answered with 403, request() raises             *)
(* NuclosAuthenticationException, with auto_login True as with False:      *)
(* nothing is sent and login() is not called after that answer, and the    *)
(* client holds the session the request was sent with.                     *)
(***************************************************************************)
Forbidden(log) == { i \in DOMAIN log : log[i].ev = "http" /\ log[i].status = 403 }

Exhausted ==
    /\ First401
    /\ Cardinality(Attempts(last.log, last.arg)) = 2
    /\ last.log[Latest(Attempts(last.log, last.arg))].status = 401
    /\ last.exc # ""

C21_ExhaustionClears == Exhausted => ~Truthy(session_id)

(***************************************************************************)
(* C22.  The request sent again after a 401 has the path, the URL          *)
(* parameters, the data, the method, the json_answer flag and the file     *)
(* name of the first send.                                                 *)
(***************************************************************************)
C22_SameCall ==
    (First401 /\ Cardinality(Attempts(last.log, last.arg)) = 2) =>
        LET first == last.log[Earliest(Attempts(last.log, last.arg))]
            again == last.log[Latest(Attempts(last.log, last.arg))]
        IN /\ again.path = first.path
           /\ again.parameters = first.parameters
           /\ again.data = first.data
           /\ again.verb = first.verb
           /\ again.json_answer = first.json_answer
           /\ again.filename = first.filename

(***************************************************************************)
(* C23.  instance[name] (and instance.name) looks the name up among the    *)
(* attributes first: when an attribute has that name its value is          *)
(* returned and the dependencies are not looked at.  The dependencies of   *)
(* that name are returned only when no attribute has it, and when neither  *)
(* an attribute nor a dependency has it the access raises AttributeError.  *)
(***************************************************************************)
\* The name n names the display name d: equal without case, with the
\* underscores of n read as spaces when that is needed.
Names_(n, d) ==
    \/ Lower(n) = Lower(d)
    \/ Contains(n, "_") /\ Replace(Lower(n), "_", " ") = Lower(d)

IsAttribute(bo, n) ==
    \E i \in DOMAIN MetaData(bo.bo_meta_id).attributes :
        Names_(n, MetaData(bo.bo_meta_id).attributes[i].name)

IsDependency(n) == Names_(n, DependencyMeta.name)

\* The sends of a call that look at the dependencies of the instance.
DependencySends(log) ==
    { i \in DOMAIN log : /\ log[i].ev = "http"
                          /\ log[i].path.route \in {DEPENDENCY_META_HREF,
                                                    BO_DEPENDENCY_LIST_ROUTE} }

C23_AttributeFirst ==
    last.op = "getitem" =>
        /\ IsAttribute(inst.bo, last.arg.name.s) =>
                /\ DependencySends(last.log) = {}
                /\ last.exc = "" => last.val.t # "list"
        /\ (last.exc = "" /\ last.val.t = "list") =>
                /\ ~IsAttribute(inst.bo, last.arg.name.s)
                /\ IsDependency(last.arg.name.s)
        /\ (~IsAttribute(inst.bo, last.arg.name.s)
                /\ ~IsDependency(last.arg.name.s)) =>
                last.exc = "AttributeError"

(***************************************************************************)
(* C24.  A Cached method called with an argument that can not be hashed    *)
(* computes the method, returns what it computed without raising, and      *)
(* stores no entry: get_business_object of a list, which is the id of no   *)
(* business object, returns None and leaves its cache as it was.           *)
(***************************************************************************)
Unhashable ==
    /\ last.op = "get_business_object"
    /\ ~CanHashAll(<<last.arg>>)

C24_Bypass ==
    Unhashable =>
        /\ last.exc \notin {"TypeError"}
        /\ last.exc = "" => last.val = PyNone
        /\ Stored(X, "get_business_object", <<last.arg>>) = {}

(***************************************************************************)
(* C25.  change_to_state and change_to_state_by_name with a target that    *)
(* is not among the nextStates of the loaded data raise                    *)
(* NuclosValueException: nothing is sent, the loaded data stay (no         *)
(* refresh) and the pending writes stay.                                   *)
(***************************************************************************)
\* The target of the call is not a next state of the loaded data.
NotNext(op, arg) ==
    /\ inst.data # PyNone
    /\ \/ /\ op = "change_to_state"
          /\ \A i \in DOMAIN inst.data.nextStates :
                number_for_state(inst.data.nextStates[i]) # arg.n
       \/ /\ op = "change_to_state_by_name"
          /\ \A i \in DOMAIN inst.data.nextStates :
                Lower(inst.data.nextStates[i].name) # Lower(arg.s)

C25_UnknownState ==
    [][ NotNext(last'.op, last'.arg) =>
            /\ last'.exc = "NuclosValueException"
            /\ last'.log = <<>>
            /\ inst' = inst
            /\ server' = server ]_vars

C25_Witness ==
    /\ last.op \in {"change_to_state", "change_to_state_by_name"}
    /\ last.exc = "NuclosValueException"
    /\ inst.data # PyNone
    /\ inst.updated # NoUpdates

(***************************************************************************)
(* C26 (as amended).  With the meta data of the business object in the     *)
(* cache, set_attribute sends nothing when the value is no instance: for   *)
(* a number, a text, the path of a document and None it only writes one    *)
(* entry of the pending writes, under the data index of the attribute.     *)
(* Given an instance for a reference attribute it can ask the server: for  *)
(* the catalog, to find the referenced business object, and for the data   *)
(* of the given instance, to read its title (logging in first when there   *)
(* is no session); the instance written to still changes in that one       *)
(* entry only.                                                             *)
(***************************************************************************)
\* The meta data of the business object of the instance are in the cache.
MetaCached == \E e \in Stored(X, "_data", <<inst.bo>>) : e.v # PyNone

SetsAttribute == last'.op = "set_attribute" /\ MetaCached

\* The instance changed in one entry of its pending writes, or not at all
\* when the call raised.
OneEntry ==
    IF last'.exc # "" THEN inst' = inst
    ELSE /\ [inst' EXCEPT !.updated = NoUpdates] =
                [inst EXCEPT !.updated = NoUpdates]
         /\ \E k \in DOMAIN inst'.updated :
                /\ k = data_index(AttributeMeta(inst.bo,
                                     AttrOf(inst.bo, last'.arg.id.s)))
                /\ DOMAIN inst'.updated = DOMAIN inst.updated \cup {k}
                /\ \A j \in DOMAIN inst.updated \ {k} :
                        inst'.updated[j] = inst.updated[j]

\* What set_attribute may send for an instance given as the value.
ForReference(value, log) ==
    \A i \in DOMAIN log :
        log[i].ev = "http" =>
            \/ log[i].path.route \in {LOGIN_ROUTE, BO_LIST_ROUTE}
            \/ /\ log[i].path = Url(value)
               /\ log[i].verb = "GET"

C26_LocalWrite ==
    [][ SetsAttribute =>
            /\ OneEntry
            /\ server' = server
            /\ IF last'.arg.value.t = "instance"
               THEN ForReference(last'.arg.value, last'.log)
               ELSE /\ last'.log = <<>>
                    /\ UNCHANGED <<session_id, bo_namespaces, cache>> ]_vars

\* C26 as stated: set_attribute never sends anything.
C26_AsStated ==
    [][ SetsAttribute => /\ ~HitsTransport(last'.log)
                         /\ OneEntry ]_vars

\* A number or a text was written and nothing was sent.
C26_Scalar ==
    /\ last.op = "set_attribute"
    /\ last.exc = ""
    /\ inst.updated # NoUpdates
    /\ last.arg.value.t \in {"int", "str"}
    /\ last.log = <<>>

\* A reference was written after the data of the given instance were
\* fetched; the meta data were not asked for, they were in the cache.
C26_Witness ==
    /\ last.op = "set_attribute"
    /\ last.exc = ""
    /\ inst.updated # NoUpdates
    /\ last.arg.value.t = "instance"
    /\ ForReference(last.arg.value, last.log)
    /\ \E i \in DOMAIN last.log : /\ last.log[i].ev = "http"
                                   /\ last.log[i].path = Url(last.arg.value)

(***************************************************************************)
(* C27.  set_attribute of an attribute that is not writeable, and of None  *)
(* to an attribute that is not nullable, raises the NuclosException of an  *)
(* instance that does not allow the operation, not the exception of a      *)
(* rejected login, and leaves the pending writes as they were.             *)
(***************************************************************************)
\* The write of the call is one that set_attribute refuses.
Refused(bo, arg) ==
    /\ arg.id.s \in { MetaData(bo.bo_meta_id).attributes[i].boAttrId :
                        i \in DOMAIN MetaData(bo.bo_meta_id).attributes }
    /\ \/ AttrOf(bo, arg.id.s).readonly
       \/ arg.value = PyNone /\ ~AttrOf(bo, arg.id.s).nullable

C27_Refused ==
    [][ (last'.op = "set_attribute" /\ Refused(inst.bo, last'.arg)) =>
            /\ last'.exc = "NuclosException"
            /\ inst'.updated = inst.updated ]_vars

(***************************************************************************)
(* C28.  When a send of request(json_answer=True) is answered with         *)
(* success and a body that is no JSON, that send is the last of the call,  *)
(* the call returns None and raises nothing, and the session id is the     *)
(* one the send carried.                                                   *)
(***************************************************************************)
\* The sends of the caller's request that got a body that is no JSON.
Garbled(log, rq) ==
    { i \in Attempts(log, rq) : /\ log[i].answer = "garbled"
                                /\ log[i].json_answer }

C28_InvalidJSON ==
    last.op = "request" =>
        \A i \in Garbled(last.log, last.arg) :
            /\ i = Len(last.log)
            /\ last.exc = ""
            /\ last.val = PyNone
            /\ session_id = last.log[i].cookie

\* request(json_answer=True) of a client that holds a session got a body
\* that is no JSON and returned None.
C28_Witness ==
    /\ last.op = "request"
    /\ last.arg.json_answer
    /\ last.arg.filename = PyNone
    /\ Garbled(last.log, last.arg) = {Len(last.log)}
    /\ Truthy(session_id)
    /\ last.exc = ""
    /\ last.val = PyNone

(***************************************************************************)
(* C29.  A Cached method whose result for the arguments is stored returns  *)
(* the stored result, None included, and computes nothing: it sends no     *)
(* request and changes nothing.  A call that returns leaves its result     *)
(* stored under its arguments, entries are never replaced, and only        *)
(* reconnect() removes them, so the results of other arguments stay.       *)
(***************************************************************************)
\* The Cached methods a caller calls, and the key of the call.
CachedCalls == CachedReads \cup {"get_business_object"}
KeyOf(op, arg) ==
    CASE op \in {"version", "_business_objects"} -> <<>>
      [] op = "_data" -> <<CustomerBo>>
      [] OTHER -> <<arg>>

C29_Memoized ==
    [][ last'.op \in CachedCalls =>
            LET key == KeyOf(last'.op, last'.arg)
                f == last'.op
            IN /\ \A e \in cache[f] :
                    e.a = key => /\ last'.exc = ""
                                 /\ last'.val = e.v
                                 /\ last'.log = <<>>
                                 /\ UNCHANGED <<cache, session_id, server>>
               /\ last'.exc = "" =>
                    \E e \in cache'[f] : e.a = key /\ e.v = last'.val
               /\ \A g \in CachedNames : cache[g] \subseteq cache'[g]
               /\ \A e, d \in cache'[f] : e.a = d.a => e = d ]_vars

\* The catalog was read and None was stored for it; a name was resolved,
\* and the catalog read after that returned the stored None with nothing
\* sent.
C29_Witness ==
    /\ last.op = "_business_objects"
    /\ last.exc = ""
    /\ last.val = PyNone
    /\ last.log = <<>>
    /\ last.prev.op \notin {"_business_objects", "reconnect", ""}
    /\ \E e \in cache["_business_objects"] : e.v = PyNone

(***************************************************************************)
(* C30 (as amended).  While the data of an instance are loaded a read      *)
(* returns them and sends nothing, and they stay the same until refresh()  *)
(* drops them or a save() that wrote puts the data the server answered in  *)
(* their place; after delete() a read raises.  The read after refresh()    *)
(* fetches the instance: the GET is sent once, and once more when it was   *)
(* answered with 401, and the data it returns are the loaded ones again;   *)
(* nothing is fetched only when the client has no session and the login    *)
(* before the fetch fails.                                                 *)
(***************************************************************************)
Loaded == inst.data # PyNone

Refreshed == last.op = "refresh" /\ last.exc = "" /\ inst.bo_id # 0

\* The sends of a call that fetch the instance.
Fetches(log) ==
    { i \in DOMAIN log : /\ log[i].ev = "http"
                          /\ log[i].path = Url(inst)
                          /\ log[i].verb = "GET" }

C30_Snapshot ==
    [][ /\ (Loaded /\ ~inst.deleted /\ last'.op = "data") =>
                /\ last'.exc = ""
                /\ last'.val = inst.data
                /\ last'.log = <<>>
                /\ inst' = inst
        /\ (Loaded /\ inst.deleted /\ last'.op = "data") =>
                /\ last'.exc = "NuclosException"
                /\ last'.log = <<>>
        /\ (Loaded /\ last'.op \notin {"refresh", "get", "save"}) =>
                inst'.data = inst.data
        /\ (Loaded /\ last'.op = "save") =>
                \/ inst'.data = inst.data
                \/ /\ last'.val = PyBool(TRUE)
                   /\ inst'.data = BoData(server', inst'.bo_id)
        /\ (last'.op = "refresh" /\ last'.exc = "") => inst'.data = PyNone
        /\ (Refreshed /\ last'.op = "data") =>
                /\ Cardinality(Fetches(last'.log)) \in {0, 1, 2}
                /\ Cardinality(Fetches(last'.log)) = 0 =>
                        /\ ~Truthy(session_id)
                        /\ last'.exc # ""
                /\ Cardinality(Fetches(last'.log)) = 2 =>
                        last'.log[Earliest(Fetches(last'.log))].status = 401
                /\ last'.exc = "" => /\ last'.val = BoData(server, inst.bo_id)
                                      /\ inst'.data = last'.val ]_vars

\* C30 as stated: loaded data stay until refresh(), every read returns them
\* without a send, and the read after refresh() sends one fetch.
C30_AsStated ==
    [][ /\ (Loaded /\ last'.op \notin {"refresh", "get"}) =>
                inst'.data = inst.data
        /\ (Loaded /\ last'.op = "data") =>
                /\ last'.exc = ""
                /\ last'.val = inst.data
                /\ last'.log = <<>>
        /\ (Refreshed /\ last'.op = "data") =>
                Cardinality(Fetches(last'.log)) = 1 ]_vars

\* A save() wrote the pending edit, and the read after it returned the data
\* the server answered, with nothing sent and no refresh().
C30_Witness ==
    /\ last.op = "data"
    /\ last.exc = ""
    /\ last.log = <<>>
    /\ last.val = inst.data
    /\ last.prev.op = "save"
    /\ last.prev.http
    /\ last.prev.yes
    /\ inst.data.version.n > 0

\* The read after refresh() fetched the instance.
C30_Refetched ==
    /\ last.op = "data"
    /\ last.exc = ""
    /\ last.prev.op = "refresh"
    /\ last.prev.exc = ""
    /\ Cardinality(Fetches(last.log)) = 2
    /\ last.val = inst.data

(***************************************************************************)
(* C31 (as amended).  get_attribute of an attribute the business object    *)
(* has takes the pending write of its data index when there is one, and    *)
(* does not fetch the instance for it; else the entry of the loaded data;  *)
(* else False for an attribute of type Boolean and None for any other.     *)
(* What it found it returns as it is, but for a document it returns the    *)
(* name of the file, and for a reference an instance of the referenced     *)
(* business object with the id found (None when there is no id).  On an    *)
(* instance without an id and without a pending write of the attribute it  *)
(* raises NuclosException.                                                 *)
(***************************************************************************)
\* The attribute read by the call, and its data index.
ReadAttr == AttrOf(inst.bo, last.arg.s)
ReadIndex == data_index(AttributeMeta(inst.bo, ReadAttr))

HasAttr(bo, id) ==
    \E i \in DOMAIN MetaData(bo.bo_meta_id).attributes :
        MetaData(bo.bo_meta_id).attributes[i].boAttrId = id

\* What is returned for the data d found for the attribute.
Shown(attr, d) ==
    IF Lower(attr.type) = Lower(T_Document) /\ d # PyNone THEN d.name
    ELSE IF attr.reference
    THEN IF d # PyNone /\ d.id # PyNone
         THEN BusinessObjectInstance(
                  BusinessObject(attr.referencingBoMetaId,
                                 <<PyStr(attr.referencingBoMetaId)>>), d.id.n)
         ELSE PyNone
    ELSE d

\* What get_attribute found: the pending write, the loaded entry, the
\* default.
Found ==
    IF ReadIndex \in DOMAIN inst.updated THEN inst.updated[ReadIndex]
    ELSE IF ReadIndex \in DOMAIN inst.data.attributes
    THEN inst.data.attributes[ReadIndex]
    ELSE IF ReadAttr.type = T_Boolean THEN PyBool(FALSE) ELSE PyNone

\* The default is returned as it is.
IsDefault ==
    /\ ReadIndex \notin DOMAIN inst.updated
    /\ ReadIndex \notin DOMAIN inst.data.attributes

C31_Priority ==
    (last.op = "get_attribute" /\ HasAttr(inst.bo, last.arg.s)) =>
        /\ ReadIndex \in DOMAIN inst.updated =>
                /\ last.exc = ""
                /\ Fetches(last.log) = {}
        /\ last.exc = "" =>
                last.val = IF IsDefault THEN Found ELSE Shown(ReadAttr, Found)
        /\ last.exc # "" =>
                /\ last.exc = "NuclosException"
                /\ inst.bo_id = 0

\* C31 as stated: the pending value, the loaded value or the default is
\* returned as it is.
C31_AsStated ==
    (last.op = "get_attribute" /\ HasAttr(inst.bo, last.arg.s)
        /\ last.exc = "") => last.val = Found

\* The attribute has a pending write and a different entry in the loaded
\* data, and the pending write was returned.
C31_Witness ==
    /\ last.op = "get_attribute"
    /\ HasAttr(inst.bo, last.arg.s)
    /\ last.exc = ""
    /\ ReadIndex \in DOMAIN inst.updated
    /\ inst.data # PyNone
    /\ ReadIndex \in DOMAIN inst.data.attributes
    /\ inst.data.attributes[ReadIndex] # inst.updated[ReadIndex]
    /\ last.val = inst.updated[ReadIndex]

\* Nothing was found for an attribute of type Boolean: False was returned.
C31_Default ==
    /\ last.op = "get_attribute"
    /\ HasAttr(inst.bo, last.arg.s)
    /\ last.exc = ""
    /\ IsDefault
    /\ last.val = PyBool(FALSE)

(***************************************************************************)
(* C32.  get_business_object_by_name of a name the catalog lists returns   *)
(* that business object and checks no candidate of a namespace.  Of a      *)
(* name the catalog does not list it returns the first that exists of the  *)
(* candidates namespace_name, namespace_Name, taken namespace by           *)
(* namespace in the order they were added and built from the name as the   *)
(* caller gave it; None when none exists.                                  *)
(***************************************************************************)
\* The ids of the catalog, and the id listed under the name.
CatalogIds == { server.catalog[i].boMetaId : i \in DOMAIN server.catalog }
Listed(name) ==
    { server.catalog[i].boMetaId :
        i \in { j \in DOMAIN server.catalog :
                    Lower(server.catalog[j].name) = Lower(name) } }

\* The candidates in the order they are to be tried: two per namespace.
Candidates(name) ==
    [ k \in 1..(2 * Len(bo_namespaces)) |->
        bo_namespaces[(k + 1) \div 2] \o <<"_">> \o
            (IF k % 2 = 1 THEN name ELSE Capitalize(name)) ]

FirstExisting(name) ==
    LET c == Candidates(name)
        hits == { k \in DOMAIN c : c[k] \in CatalogIds }
    IN IF hits = {} THEN PyNone
       ELSE LET id == c[CHOOSE k \in hits : \A j \in hits : k <= j]
            IN BusinessObject(id, <<PyStr(id)>>)

\* The existence checks a call added to the cache.
Checked == { e.a[1].s : e \in cache'["_bo_meta_id_exists"] \
                                 cache["_bo_meta_id_exists"] }

C32_Namespaces ==
    [][ last'.op = "get_business_object_by_name" =>
            /\ last'.exc = ""
            /\ IF Listed(last'.arg.s) # {}
               THEN /\ \E id \in Listed(last'.arg.s) :
                            last'.val = BusinessObject(id, <<PyStr(id)>>)
                    /\ Checked \subseteq Listed(last'.arg.s)
               ELSE last'.val = FirstExisting(last'.arg.s) ]_vars

(***************************************************************************)
(* C33.  The lookup of a name calls itself only with a name that has       *)
(* fewer underscores than the name it was called with, so one lookup makes *)
(* no more calls of itself than the name has underscores.  The calls are   *)
(* seen in the cache of _get_bo_meta_id, which stores one entry for every  *)
(* call that returned; the attribute and dependency lookups take the same  *)
(* step, name.replace("_", " ") of a lowered name that holds "_".          *)
(***************************************************************************)
Underscores(s) == Cardinality({ i \in DOMAIN s : s[i] = "_" })

\* The names the lookup called itself with: the entries the call added to
\* the cache, but the one of the caller's name.
Recursions ==
    { e.a[1].s : e \in cache'["_get_bo_meta_id"] \ cache["_get_bo_meta_id"] }
        \ { last'.arg.s }

IsPeerKey(a) == Len(a) > 0 /\ a[1].t = "NuclosAPI"
PeerEntries(c) == [f \in CachedNames |-> { e \in c[f] : IsPeerKey(e.a) }]
OwnEntries(c) == [f \in CachedNames |-> { e \in c[f] : ~IsPeerKey(e.a) }]

C34_OwnRegistry ==
    [][ /\ last'.op = "reconnect" =>
                /\ peer' = peer
                /\ PeerEntries(cache') = PeerEntries(cache)
        /\ last'.op = "peer.reconnect" =>
                /\ session_id' = session_id
                /\ OwnEntries(cache') = OwnEntries(cache) ]_vars

(***************************************************************************)
(* C35.  A save() that returns False leaves the id of the instance and its *)
(* pending writes as they were, and the save() after it sends them again:  *)
(* it does not return without a request, every write it sends carries the  *)
(* pending writes, and it sends a write unless it fails before.            *)
(***************************************************************************)
SaveFailed == last.op = "save" /\ last.exc = "" /\ last.val = PyBool(FALSE)

C35_FailedSave ==
    [][ /\ (last'.op = "save" /\ last'.exc = "" /\ last'.val = PyBool(FALSE)) =>
                /\ inst'.bo_id = inst.bo_id
                /\ inst'.updated = inst.updated
                /\ inst'.deleted = inst.deleted
        /\ (SaveFailed /\ last'.op = "save") =>
                /\ DOMAIN inst.updated # {}
                /\ last'.log # <<>>
                /\ \A i \in Writes(last'.log) :
                        last'.log[i].data.attributes = inst.updated
                /\ Writes(last'.log) = {} => last'.val # PyBool(TRUE) ]_vars

\* A save() returned False, and the save() after it sent the pending writes
\* and returned True.
C35_Witness ==
    /\ last.op = "save"
    /\ last.val = PyBool(TRUE)
    /\ Writes(last.log) # {}
    /\ last.prev.op = "save"
    /\ last.prev.exc = ""
    /\ last.prev.http
    /\ ~last.prev.yes

\* A save() of a new instance was answered with an empty body and returned
\* False: the instance is still new.
C35_Empty ==
    /\ SaveFailed
    /\ \E i \in Writes(last.log) : last.log[i].answer = "garbled"
    /\ inst.bo_id = 0
    /\ DOMAIN inst.updated # {}

(***************************************************************************)
(* C36.  When the state change request of change_to_state or               *)
(* change_to_state_by_name is not answered with success the call raises    *)
(* the error of the request, the refresh is not made, the pending writes   *)
(* stay as they were and so do the loaded data; data that were not loaded  *)
(* before the call are the ones the call read the next states from.        *)
(***************************************************************************)
StateChanges(log) ==
    { i \in DOMAIN log : /\ log[i].ev = "http"
                          /\ log[i].path.route = STATE_CHANGE_ROUTE }

\* The call asked for the state change, and no such request was answered
\* with success.
ChangeFailed(l) ==
    /\ l.op \in {"change_to_state", "change_to_state_by_name"}
    /\ StateChanges(l.log) # {}
    /\ \A i \in StateChanges(l.log) : l.log[i].answer # "ok"

C36_FailedTransition ==
    [][ ChangeFailed(last') =>
            /\ last'.exc \in {"NuclosHTTPException",
                               "NuclosAuthenticationException"}
            /\ last'.code = last'.log[Len(last'.log)].status
            /\ inst'.updated = inst.updated
            /\ inst'.data # PyNone
            /\ inst.data # PyNone => inst'.data = inst.data
            /\ inst'.bo_id = inst.bo_id
            /\ server'.bos = server.bos ]_vars

\* The state change request failed on an instance with loaded data and a
\* pending write, and both are still there.
C36_Witness ==
    /\ ChangeFailed(last)
    /\ last.exc # ""
    /\ last.prev.op = "set_attribute_by_name"
    /\ last.prev.exc = ""
    /\ DOMAIN inst.updated # {}
    /\ inst.data # PyNone

(***************************************************************************)
(* C37.  refresh() leaves every stored result of a Cached method as it is. *)
(* The dependency meta data stored for an instance are returned by every   *)
(* later read, with nothing sent, also after refresh() and a reload of     *)
(* data whose subBos are others than before; they are dropped by           *)
(* reconnect(), which empties every store.                                 *)
(***************************************************************************)
MetasStored == cache["_dependency_metas"] # {}

C37_RefreshKeeps ==
    [][ /\ last'.op = "refresh" => cache' = cache
        /\ (MetasStored /\ last'.op = "_dependency_metas") =>
                /\ last'.exc = ""
                /\ \E e \in cache["_dependency_metas"] : last'.val = e.v
                /\ last'.log = <<>>
                /\ cache' = cache
        /\ (MetasStored /\ last'.op \notin {"reconnect", "get"}) =>
                cache["_dependency_metas"] \subseteq cache'["_dependency_metas"]
        /\ (last'.op = "reconnect" /\ last'.exc = "") => cache' = EmptyCache
      ]_vars

\* The data were loaded again after a refresh() and have no subBos, and the
\* read of the dependency meta data after it returned the stored ones, with
\* the orders.
C37_Witness ==
    /\ last.op = "_dependency_metas"
    /\ last.exc = ""
    /\ last.log = <<>>
    /\ last.prev.op = "data"
    /\ inst.data # PyNone
    /\ inst.data.subBos = <<>>
    /\ Len(last.val.items) = 1

(***************************************************************************)
(* C38.  No call on an instance that has an id changes the id, whether its *)
(* requests succeed or fail.  The id of an instance changes only in a      *)
(* save() of a new instance that returns True: the POST was answered with  *)
(* the stored instance, and the id is the one of the answer.               *)
(***************************************************************************)
\* The calls that work on the instance held; get and create hand out
\* another one.
OnInstance(op) == op \notin {"get", "create"}

C38_IdentifierFixed ==
    [][ OnInstance(last'.op) =>
            /\ inst.bo_id # 0 => inst'.bo_id = inst.bo_id
            /\ inst'.bo = inst.bo
            /\ inst'.bo_id # inst.bo_id =>
                    /\ last'.op = "save"
                    /\ last'.val = PyBool(TRUE)
                    /\ \E i \in Inserts(last'.log) :
                            last'.log[i].answer = "ok"
                    /\ inst'.bo_id = server.next_id
                    /\ inst'.data.boId = PyInt(inst'.bo_id) ]_vars

\* An instance got its id from an insert, and kept it through a write, a
\* save that updated it and a delete.
C38_Witness ==
    /\ last.op = "delete"
    /\ last.val = PyBool(TRUE)
    /\ HitsTransport(last.log)
    /\ last.prev.op = "save"
    /\ last.prev.yes
    /\ last.prev.http
    /\ inst.data # PyNone
    /\ inst.data.version.n > 0
    /\ inst.bo_id > 1

\* A request of a call on an instance with an id failed.
C38_Failed ==
    /\ OnInstance(last.op)
    /\ inst.bo_id > 1
    /\ \E i \in DOMAIN last.log : /\ last.log[i].ev = "http"
                                    /\ last.log[i].status = 500

====
